---- MODULE Spec2Model ----
(***************************************************************************)
(* Profile lifecycle and apply engine of ai-toolbox.                       *)
(*                                                                         *)
(* One tool family is modelled: its profile table, its common-config       *)
(* record, its two destination files, the tray menu, the single store lock *)
(* and the "config-changed" events.  The window commands are those of      *)
(* coding/codex/commands.rs, the tray path is that of tray.rs.  Every      *)
(* command is a task that runs from one store call to the next; the store  *)
(* lock is taken at the command's first statement and given back when the  *)
(* guard goes out of scope.                                                *)
(***************************************************************************)
EXTENDS Integers, Sequences, FiniteSets, TLC

VARIABLES
    proc,    \* "down" | "up": whether the application process runs
    lock,    \* the task that holds DbState's mutex, or NoTask
    store,   \* the profile table: [ProfileIds -> record | NoRec]
    common,  \* the one-record common-config table
    files,   \* the destination directory, auth.json and config.toml
    menu,    \* the menu installed in the tray icon
    pc,      \* per task: the await point it is at
    op,      \* per task: the command it runs
    arg,     \* per task: the command's input
    loc,     \* per task: the command's local variables
    res,     \* per task: the command's result
    ev,      \* per task: the events the running command has broadcast
    crashed, \* what the lock holder was doing when the process last died
    now      \* the wall clock, as Local::now() reads it

vars == <<proc, lock, store, common, files, menu, pc, op, arg, loc, res, ev,
          crashed, now>>

----------------------------------------------------------------------------
(* Bounds and inputs *)

\* the profile ids the user may choose, besides the id of the import
NumUserIds == 1
IdNames == <<"a", "b", "c">>
UserIds == {IdNames[i] : i \in 1..NumUserIds}

DefaultId == "default-config"
ProfileIds == UserIds \cup {DefaultId}
\* the order in which the store returns the rows of SELECT *
IdOrder == SubSeq(IdNames, 1, NumUserIds) \o <<DefaultId>>

Tasks == {"win", "tray"}
NoTask == "none"

NoIndex == 0 - 1
BlankTime == 0

----------------------------------------------------------------------------
(* TOML text: a sequence of lines, each a key/value line, a whitespace     *)
(* line or a line that is not TOML.                                        *)

KeyOrder == <<"model", "region">>
Keys == {KeyOrder[i] : i \in 1..Len(KeyOrder)}

KV(k, v) == [kind |-> "kv", key |-> k, val |-> v]
WsLine == [kind |-> "ws", key |-> "", val |-> ""]
BadLine == [kind |-> "bad", key |-> "", val |-> ""]

BlankText == <<>>
WsText == <<WsLine>>
BadText == <<BadLine>>
TextUs == <<KV("region", "us")>>
TextEuY == <<KV("region", "eu"), KV("model", "y")>>
TextLegacy == <<KV("model", "old")>>

\* str::trim().is_empty()
IsBlank(t) == \A i \in 1..Len(t) : t[i].kind = "ws"

\* toml::from_str succeeds: every line is TOML and no key is defined twice
TomlOk(t) ==
    /\ \A i \in 1..Len(t) : t[i].kind # "bad"
    /\ \A i, j \in 1..Len(t) :
          (i # j /\ t[i].kind = "kv" /\ t[j].kind = "kv") => t[i].key # t[j].key

\* toml::from_str: the table of a text that parses
TomlKeys(t) == {t[i].key : i \in {j \in 1..Len(t) : t[j].kind = "kv"}}
TomlTable(t) ==
    [k \in TomlKeys(t) |->
        t[CHOOSE i \in 1..Len(t) : t[i].kind = "kv" /\ t[i].key = k].val]

\* toml::to_string_pretty: one line per key, keys in ascending order
RECURSIVE TomlLinesFrom(_, _)
TomlLinesFrom(tbl, i) ==
    IF i > Len(KeyOrder) THEN <<>>
    ELSE (IF KeyOrder[i] \in DOMAIN tbl
             THEN <<KV(KeyOrder[i], tbl[KeyOrder[i]])>>
             ELSE <<>>) \o TomlLinesFrom(tbl, i + 1)
TomlPretty(tbl) == TomlLinesFrom(tbl, 1)

\* a faulty variant: two tables under one key are merged sub-key by sub-key
TomlInsertAll_Deep(base, over) ==
    [k \in DOMAIN base \cup DOMAIN over |->
        IF k \notin DOMAIN over THEN base[k]
        ELSE IF k \in DOMAIN base /\ base[k].tag = "table" /\ over[k].tag = "table"
            THEN [over[k] EXCEPT !.sub =
                     [j \in DOMAIN base[k].sub \cup DOMAIN over[k].sub |->
                         IF j \in DOMAIN over[k].sub THEN over[k].sub[j]
                         ELSE base[k].sub[j]]]
        ELSE over[k]]

\* Table::insert of every provider entry into the common table
TomlInsertAll(base, over) ==
    [k \in DOMAIN base \cup DOMAIN over |->
        IF k \in DOMAIN over THEN over[k] ELSE base[k]]

merge_toml_configs(commonText, providerText) ==
    IF IsBlank(commonText) THEN [ok |-> TRUE, text |-> providerText]
    ELSE IF IsBlank(providerText) THEN [ok |-> TRUE, text |-> commonText]
    ELSE IF ~TomlOk(commonText) \/ ~TomlOk(providerText)
        THEN [ok |-> FALSE, text |-> BlankText]
    ELSE [ok |-> TRUE,
          text |-> TomlPretty(TomlInsertAll(TomlTable(commonText),
                                            TomlTable(providerText)))]

----------------------------------------------------------------------------
(* Records *)

\* settings_config: a JSON string; "auth" and "config" are its two sections
EmptyObj == "{}"
NoAuth == "none"
Payload(auth, config) == [json |-> "obj", auth |-> auth, config |-> config]
BadPayload == [json |-> "bad", auth |-> NoAuth, config |-> BlankText]

NoRec == [exists |-> FALSE]
Rec(applied, settings, sortIndex, createdAt, updatedAt) ==
    [exists |-> TRUE, applied |-> applied, settings |-> settings,
     sort_index |-> sortIndex, created_at |-> createdAt, updated_at |-> updatedAt]

NoCommon == [exists |-> FALSE, config |-> BlankText]
CommonRec(text) == [exists |-> TRUE, config |-> text]

NoFile == [exists |-> FALSE, text |-> BlankText]
File(text) == [exists |-> TRUE, text |-> text]
NoFiles == [dir |-> FALSE, auth |-> "absent", config |-> NoFile]

Existing == {i \in ProfileIds : store[i].exists}
AppliedIds == {i \in Existing : store[i].applied}

\* a faulty variant: the reset that forgets SET is_applied = false
UnappliedAll_KeepsFlag(tbl, ts) ==
    [i \in ProfileIds |->
        IF tbl[i].exists THEN [tbl[i] EXCEPT !.updated_at = ts] ELSE tbl[i]]

UnappliedAll(tbl, ts) ==
    [i \in ProfileIds |->
        IF tbl[i].exists
            THEN [tbl[i] EXCEPT !.applied = FALSE, !.updated_at = ts]
            ELSE tbl[i]]

----------------------------------------------------------------------------
(* Tasks *)

\* a command's arguments; x and y are the arguments of a function called on
\* its own
NoArg == [id |-> "", settings |-> BadPayload, is_applied |-> FALSE,
          created_at |-> BlankTime, sort_index |-> NoIndex, ids |-> <<>>,
          config |-> BlankText, x |-> <<>>, y |-> <<>>]
\* a command's locals: the record its first query returned, the created_at
\* it chose, the loop index, the rows or the common config it returns, the
\* diagnostic it printed, (out) the value a function call returned, whether
\* the rows of a menu query decoded, and (seq) whether that query is the last
\* menu query so far (2) or an older one (1)
NoLoc == [existing |-> NoRec, created_at |-> BlankTime, k |-> 0, rows |-> <<>>,
          common |-> NoCommon, diag |-> "none", out |-> <<>>, decoded |-> TRUE,
          seq |-> 0]
NoCrash == [op |-> "none", pc |-> "none"]

\* the faults a file apply can meet, in the order of its calls
FileFaults == {"none", "query_provider", "query_common", "mkdir", "write_auth",
               "write_config"}

\* write_codex_config_files: the directory, then auth.json, then config.toml
write_codex_config_files(auth, text, fault) ==
    IF ~files.dir /\ fault = "mkdir"
        THEN [res |-> "IOFailure", files |-> files]
    ELSE IF fault = "write_auth"
        THEN [res |-> "IOFailure", files |-> [files EXCEPT !.dir = TRUE]]
    ELSE IF fault = "write_config"
        THEN [res |-> "IOFailure",
              files |-> [files EXCEPT !.dir = TRUE, !.auth = auth]]
    ELSE [res |-> "ok",
          files |-> [dir |-> TRUE, auth |-> auth, config |-> File(text)]]

\* the "auth" section of a payload, {} when the key is missing
AuthOf(settings) == IF settings.auth = NoAuth THEN EmptyObj ELSE settings.auth

\* a faulty variant: the common layer is never merged
common_merge_Skipped(text) == [ok |-> TRUE, text |-> text]

\* the common layer apply merges under the profile text
common_merge(text) ==
    IF common.exists /\ ~IsBlank(common.config)
        THEN merge_toml_configs(common.config, text)
        ELSE [ok |-> TRUE, text |-> text]

\* a faulty variant: a payload that does not parse is taken as the empty object
apply_config_to_file_Lenient(id, fault) ==
    IF fault = "query_provider" THEN [res |-> "StoreFailure", files |-> files]
    ELSE IF ~store[id].exists THEN [res |-> "NotFound", files |-> files]
    ELSE IF fault = "query_common" THEN [res |-> "StoreFailure", files |-> files]
    ELSE LET m == common_merge(store[id].settings.config) IN
         IF ~m.ok THEN [res |-> "ParseError", files |-> files]
         ELSE write_codex_config_files(AuthOf(store[id].settings), m.text, fault)

\* apply_config_to_file_public: the result and the files it leaves
apply_config_to_file(id, fault) ==
    IF fault = "query_provider" THEN [res |-> "StoreFailure", files |-> files]
    ELSE IF ~store[id].exists THEN [res |-> "NotFound", files |-> files]
    ELSE IF store[id].settings.json = "bad"
        THEN [res |-> "ParseError", files |-> files]
    ELSE IF fault = "query_common" THEN [res |-> "StoreFailure", files |-> files]
    ELSE LET m == common_merge(store[id].settings.config) IN
         IF ~m.ok THEN [res |-> "ParseError", files |-> files]
         ELSE write_codex_config_files(AuthOf(store[id].settings), m.text, fault)

Goto(t, p) == pc' = [pc EXCEPT ![t] = p]
Finish(t, r) == pc' = [pc EXCEPT ![t] = "done"] /\ res' = [res EXCEPT ![t] = r]
Emit(t, tag) == ev' = [ev EXCEPT ![t] = Append(@, tag)]

\* a command is invoked: its future waits for the store lock
Invoke(t, o, a) ==
    /\ proc = "up"
    /\ pc[t] = "idle"
    /\ pc' = [pc EXCEPT ![t] = "lock"]
    /\ op' = [op EXCEPT ![t] = o]
    /\ arg' = [arg EXCEPT ![t] = a]
    /\ UNCHANGED <<proc, lock, store, common, files, menu, loc, res, ev, crashed, now>>

\* a faulty variant: a lock that is handed out while it is held
Acquire_NoWait(t) ==
    /\ pc[t] = "lock"
    /\ lock' = t
    /\ Goto(t, op[t])
    /\ UNCHANGED <<proc, store, common, files, menu, op, arg, loc, res, ev, crashed, now>>

\* state.0.lock().await
Acquire(t) ==
    /\ pc[t] = "lock"
    /\ lock = NoTask
    /\ lock' = t
    /\ Goto(t, op[t])
    /\ UNCHANGED <<proc, store, common, files, menu, op, arg, loc, res, ev, crashed, now>>

\* a faulty variant: the command returns and its guard is never dropped
Return_KeepsGuard(t) ==
    /\ pc[t] = "done"
    /\ pc' = [pc EXCEPT ![t] = "idle"]
    /\ op' = [op EXCEPT ![t] = "none"]
    /\ arg' = [arg EXCEPT ![t] = NoArg]
    /\ loc' = [loc EXCEPT ![t] = NoLoc]
    /\ res' = [res EXCEPT ![t] = "none"]
    /\ ev' = [ev EXCEPT ![t] = <<>>]
    /\ UNCHANGED <<proc, lock, store, common, files, menu, crashed, now>>

\* the command returns: its guard is dropped and its result delivered
Return(t) ==
    /\ pc[t] = "done"
    /\ lock' = IF lock = t THEN NoTask ELSE lock
    /\ pc' = [pc EXCEPT ![t] = "idle"]
    /\ op' = [op EXCEPT ![t] = "none"]
    /\ arg' = [arg EXCEPT ![t] = NoArg]
    /\ loc' = [loc EXCEPT ![t] = NoLoc]
    /\ res' = [res EXCEPT ![t] = "none"]
    /\ ev' = [ev EXCEPT ![t] = <<>>]
    /\ UNCHANGED <<proc, store, common, files, menu, crashed, now>>

----------------------------------------------------------------------------
(* select and apply *)

\* UPDATE ... SET is_applied = true ... WHERE provider_id = $id
SetApplied(tbl, id, ts) ==
    [i \in ProfileIds |->
        IF tbl[i].exists /\ i = id
            THEN [tbl[i] EXCEPT !.applied = TRUE, !.updated_at = ts]
            ELSE tbl[i]]

\* a faulty variant: the target is marked first, the others are reset afterwards
select_unset_SetsFirst(t) ==
    /\ pc[t] = "select"
    /\ store' = SetApplied(store, arg[t].id, now)
    /\ Goto(t, "select_set")
    /\ UNCHANGED <<proc, lock, common, files, menu, op, arg, loc, res, ev, crashed, now>>

\* a faulty variant: select looks the target up first, as apply does
select_unset_ChecksId(t) ==
    /\ pc[t] = "select"
    /\ IF store[arg[t].id].exists
          THEN /\ store' = UnappliedAll(store, now)
               /\ Goto(t, "select_set")
               /\ UNCHANGED res
          ELSE /\ Finish(t, "NotFound")
               /\ UNCHANGED store
    /\ UNCHANGED <<proc, lock, common, files, menu, op, arg, loc, ev, crashed, now>>

\* select_codex_provider, first store call: mark all providers as not applied
select_unset(t) ==
    /\ pc[t] = "select"
    /\ \E ok \in BOOLEAN :
          IF ok
              THEN /\ store' = UnappliedAll(store, now)
                   /\ Goto(t, "select_set")
                   /\ UNCHANGED res
              ELSE /\ Finish(t, "StoreFailure")
                   /\ UNCHANGED store
    /\ UNCHANGED <<proc, lock, common, files, menu, op, arg, loc, ev, crashed, now>>

\* a faulty variant: select regenerates the files as apply does
select_set_WritesFiles(t) ==
    /\ pc[t] = "select_set"
    /\ store' = SetApplied(store, arg[t].id, now)
    /\ files' = apply_config_to_file(arg[t].id, "none").files
    /\ Emit(t, "window")
    /\ Finish(t, "ok")
    /\ UNCHANGED <<proc, lock, common, menu, op, arg, loc, crashed, now>>

\* select_codex_provider, second store call and the broadcast
select_set(t) ==
    /\ pc[t] = "select_set"
    /\ \E ok \in BOOLEAN :
          IF ok
              THEN /\ store' = SetApplied(store, arg[t].id, now)
                   /\ Emit(t, "window")
                   /\ Finish(t, "ok")
              ELSE /\ Finish(t, "StoreFailure")
                   /\ UNCHANGED <<store, ev>>
    /\ UNCHANGED <<proc, lock, common, files, menu, op, arg, loc, crashed, now>>

\* a faulty variant: the file step's error is dropped and the flip goes on
apply_file_ErrorDropped(t) ==
    /\ pc[t] = "apply"
    /\ \E fault \in FileFaults :
          files' = apply_config_to_file(arg[t].id, fault).files
    /\ Goto(t, "apply_unset")
    /\ UNCHANGED <<proc, lock, store, common, menu, op, arg, loc, res, ev, crashed, now>>

\* apply_config_internal: apply_config_to_file(db, provider_id).await?
apply_file(t) ==
    /\ pc[t] = "apply"
    /\ \E fault \in FileFaults :
          LET r == apply_config_to_file(arg[t].id, fault) IN
          /\ files' = r.files
          /\ IF r.res = "ok"
                THEN Goto(t, "apply_unset") /\ UNCHANGED res
                ELSE Finish(t, r.res)
    /\ UNCHANGED <<proc, lock, store, common, menu, op, arg, loc, ev, crashed, now>>

\* apply_config_internal: UPDATE codex_provider SET is_applied = false
apply_unset(t) ==
    /\ pc[t] = "apply_unset"
    /\ \E ok \in BOOLEAN :
          IF ok
              THEN /\ store' = UnappliedAll(store, now)
                   /\ Goto(t, "apply_set")
                   /\ UNCHANGED res
              ELSE /\ Finish(t, "StoreFailure")
                   /\ UNCHANGED store
    /\ UNCHANGED <<proc, lock, common, files, menu, op, arg, loc, ev, crashed, now>>

\* the payload of apply_config_internal's event
apply_payload(from_tray) == IF from_tray THEN "tray" ELSE "window"

\* apply_config_internal: UPDATE ... SET is_applied = true, then the broadcast;
\* apply_codex_config passes from_tray = false
apply_set(t) ==
    /\ pc[t] = "apply_set"
    /\ \E ok \in BOOLEAN :
          IF ok
              THEN /\ store' = SetApplied(store, arg[t].id, now)
                   /\ Emit(t, apply_payload(FALSE))
                   /\ Finish(t, "ok")
              ELSE /\ Finish(t, "StoreFailure")
                   /\ UNCHANGED <<store, ev>>
    /\ UNCHANGED <<proc, lock, common, files, menu, op, arg, loc, crashed, now>>

----------------------------------------------------------------------------
(* The tray *)

RECURSIVE RowsFrom(_, _)
RowsFrom(tbl, i) ==
    IF i > Len(IdOrder) THEN <<>>
    ELSE (IF tbl[IdOrder[i]].exists
             THEN <<[id |-> IdOrder[i], applied |-> tbl[IdOrder[i]].applied,
                     sort_index |-> tbl[IdOrder[i]].sort_index]>>
             ELSE <<>>) \o RowsFrom(tbl, i + 1)
\* SELECT * OMIT id FROM <table>
QueryRows(tbl) == RowsFrom(tbl, 1)

\* sort_index ... unwrap_or(0)
SortKey(row) == IF row.sort_index = NoIndex THEN 0 ELSE row.sort_index

RECURSIVE InsertRow(_, _)
InsertRow(row, s) ==
    IF s = <<>> THEN <<row>>
    ELSE IF SortKey(s[Len(s)]) <= SortKey(row) THEN Append(s, row)
    ELSE Append(InsertRow(row, SubSeq(s, 1, Len(s) - 1)), s[Len(s)])
\* a faulty variant: the rows are returned as the store gave them
SortRows_AsStored(s) == s

RECURSIVE SortRows(_)
\* sort_by_key: a stable sort
SortRows(s) ==
    IF s = <<>> THEN <<>>
    ELSE InsertRow(s[Len(s)], SortRows(SubSeq(s, 1, Len(s) - 1)))

\* no tray icon yet; the menu create_tray installs has no family rows
NoMenu == <<[kind |-> "none", id |-> "", enabled |-> FALSE, checked |-> FALSE]>>
BaseMenu == <<>>
\* MenuItem::with_id(app, "claude_empty", .., false, ..)
EmptyItem == [kind |-> "placeholder", id |-> "claude_empty", enabled |-> FALSE,
              checked |-> FALSE]
\* CheckMenuItem::with_id(app, &item_id, &name, true, is_applied, ..)
CheckItem(row) == [kind |-> "check", id |-> row.id, enabled |-> TRUE,
                   checked |-> row.applied]
\* a faulty variant: the placeholder row is there whatever the rows
BuildMenu_AlwaysPlaceholder(rows) ==
    <<EmptyItem>> \o [i \in 1..Len(rows) |-> CheckItem(rows[i])]
\* the family's rows of the flat menu
BuildMenu(rows) ==
    IF rows = <<>> THEN <<EmptyItem>>
    ELSE [i \in 1..Len(rows) |-> CheckItem(rows[i])]

\* apply_claude_provider: the family's apply_config_internal under the lock
tray_apply_file(t) ==
    /\ pc[t] = "tray_apply"
    /\ \E fault \in FileFaults :
          LET r == apply_config_to_file(arg[t].id, fault) IN
          /\ files' = r.files
          /\ IF r.res = "ok"
                THEN Goto(t, "tray_unset") /\ UNCHANGED res
                ELSE Finish(t, r.res)
    /\ UNCHANGED <<proc, lock, store, common, menu, op, arg, loc, ev, crashed, now>>

tray_apply_unset(t) ==
    /\ pc[t] = "tray_unset"
    /\ \E ok \in BOOLEAN :
          IF ok
              THEN /\ store' = UnappliedAll(store, now)
                   /\ Goto(t, "tray_set")
                   /\ UNCHANGED res
              ELSE /\ Finish(t, "StoreFailure")
                   /\ UNCHANGED store
    /\ UNCHANGED <<proc, lock, common, files, menu, op, arg, loc, ev, crashed, now>>

\* the last store call of the apply, then drop(db) and refresh_tray_menus(app)
tray_apply_set(t) ==
    /\ pc[t] = "tray_set"
    /\ \E ok \in BOOLEAN :
          IF ok
              THEN /\ store' = SetApplied(store, arg[t].id, now)
                   /\ lock' = NoTask
                   /\ Goto(t, "refresh_lock")
                   /\ UNCHANGED res
              ELSE /\ Finish(t, "StoreFailure")
                   /\ UNCHANGED <<store, lock>>
    /\ UNCHANGED <<proc, common, files, menu, op, arg, loc, ev, crashed, now>>

\* refresh_tray_menus: db_state.0.lock().await
refresh_lock(t) ==
    /\ pc[t] = "refresh_lock"
    /\ lock = NoTask
    /\ lock' = t
    /\ Goto(t, "refresh_query")
    /\ UNCHANGED <<proc, store, common, files, menu, op, arg, loc, res, ev, crashed, now>>

\* the locals after task t's menu query returned rows: t's query is now the
\* last one (seq 2), every earlier query still on record is older (seq 1)
Queried(t, rows, decoded) ==
    [u \in Tasks |->
        IF u = t THEN [loc[u] EXCEPT !.rows = rows, !.decoded = decoded, !.seq = 2]
        ELSE IF loc[u].seq > 0 THEN [loc[u] EXCEPT !.seq = 1]
        ELSE loc[u]]

\* refresh_tray_menus: the queries, the sort and drop(db)
refresh_query(t) ==
    /\ pc[t] = "refresh_query"
    /\ lock' = NoTask
    /\ \E outcome \in {"rows", "undecodable", "error"} :
          CASE outcome = "rows" ->
                  /\ loc' = Queried(t, SortRows(QueryRows(store)), TRUE)
                  /\ Goto(t, "refresh_build")
                  /\ UNCHANGED res
            [] outcome = "undecodable" ->
                  /\ loc' = Queried(t, <<>>, FALSE)
                  /\ Goto(t, "refresh_build")
                  /\ UNCHANGED res
            [] OTHER ->
                  /\ Finish(t, "StoreFailure")
                  /\ UNCHANGED loc
    /\ UNCHANGED <<proc, store, common, files, menu, op, arg, ev, crashed, now>>

\* the event apply_claude_provider broadcasts after the refresh
tray_payload == "claude-code"

\* refresh_tray_menus: Menu::with_items and tray.set_menu; back in
\* apply_claude_provider, app.emit("config-changed", "claude-code")
refresh_build(t) ==
    /\ pc[t] = "refresh_build"
    /\ \E ok \in BOOLEAN :
          IF ok
              THEN /\ menu' = BuildMenu(loc[t].rows)
                   /\ IF op[t] = "tray_apply"
                         THEN Emit(t, tray_payload)
                         ELSE UNCHANGED ev
                   /\ Finish(t, "ok")
              ELSE /\ Finish(t, "MenuFailure")
                   /\ UNCHANGED <<menu, ev>>
    /\ UNCHANGED <<proc, lock, store, common, files, op, arg, loc, crashed, now>>

----------------------------------------------------------------------------
(* The profile table: create, update, delete, reorder, list *)

\* create_codex_provider: the existence check
create_check(t) ==
    /\ pc[t] = "create"
    /\ \E outcome \in {"rows", "undecodable", "error"} :
          IF outcome = "error" THEN Finish(t, "StoreFailure")
          ELSE IF outcome = "rows" /\ store[arg[t].id].exists
              THEN Finish(t, "DuplicateId")
          ELSE Goto(t, "create_insert") /\ UNCHANGED res
    /\ UNCHANGED <<proc, lock, store, common, files, menu, op, arg, loc, ev, crashed, now>>

\* a faulty variant: the insert replaces a record stored under the id
create_insert_Overwrites(t) ==
    /\ pc[t] = "create_insert"
    /\ \E ok \in BOOLEAN :
          IF ok
              THEN /\ store' = [store EXCEPT ![arg[t].id] =
                                   Rec(FALSE, arg[t].settings, arg[t].sort_index,
                                       now, now)]
                   /\ Emit(t, "window")
                   /\ Finish(t, "ok")
              ELSE /\ Finish(t, "StoreFailure")
                   /\ UNCHANGED <<store, ev>>
    /\ UNCHANGED <<proc, lock, common, files, menu, op, arg, loc, crashed, now>>

\* a faulty variant: the insert stores the flag and the created_at of the input
create_insert_TrustsInput(t) ==
    /\ pc[t] = "create_insert"
    /\ \E ok \in BOOLEAN :
          IF ok /\ ~store[arg[t].id].exists
              THEN /\ store' = [store EXCEPT ![arg[t].id] =
                                   Rec(arg[t].is_applied, arg[t].settings,
                                       arg[t].sort_index, arg[t].created_at, now)]
                   /\ Emit(t, "window")
                   /\ Finish(t, "ok")
              ELSE /\ Finish(t, "StoreFailure")
                   /\ UNCHANGED <<store, ev>>
    /\ UNCHANGED <<proc, lock, common, files, menu, op, arg, loc, crashed, now>>

\* create_codex_provider: CREATE codex_provider:`id` CONTENT $data, then the
\* broadcast. CREATE does not replace a record that is stored under the id
\* (update deletes the record before it creates it again).
create_insert(t) ==
    /\ pc[t] = "create_insert"
    /\ \E ok \in BOOLEAN :
          IF ok /\ ~store[arg[t].id].exists
              THEN /\ store' = [store EXCEPT ![arg[t].id] =
                                   Rec(FALSE, arg[t].settings, arg[t].sort_index,
                                       now, now)]
                   /\ Emit(t, "window")
                   /\ Finish(t, "ok")
              ELSE /\ Finish(t, "StoreFailure")
                   /\ UNCHANGED <<store, ev>>
    /\ UNCHANGED <<proc, lock, common, files, menu, op, arg, loc, crashed, now>>

\* update_codex_provider: the existing record is read and created_at chosen
update_read(t) ==
    /\ pc[t] = "update"
    /\ \E outcome \in {"rows", "undecodable", "error"} :
          LET existing == IF outcome = "rows" THEN store[arg[t].id] ELSE NoRec IN
          IF outcome = "error" THEN Finish(t, "StoreFailure") /\ UNCHANGED loc
          ELSE IF arg[t].created_at # BlankTime
              THEN /\ loc' = [loc EXCEPT ![t].existing = existing,
                                         ![t].created_at = arg[t].created_at]
                   /\ Goto(t, "update_delete")
                   /\ UNCHANGED res
          ELSE IF existing.exists
              THEN /\ loc' = [loc EXCEPT ![t].existing = existing,
                                         ![t].created_at = existing.created_at]
                   /\ Goto(t, "update_delete")
                   /\ UNCHANGED res
          ELSE Finish(t, "NotFound") /\ UNCHANGED loc
    /\ UNCHANGED <<proc, lock, store, common, files, menu, op, arg, ev, crashed, now>>

\* update_codex_provider: DELETE codex_provider:`id`
update_delete(t) ==
    /\ pc[t] = "update_delete"
    /\ \E ok \in BOOLEAN :
          IF ok
              THEN /\ store' = [store EXCEPT ![arg[t].id] = NoRec]
                   /\ Goto(t, "update_create")
                   /\ UNCHANGED res
              ELSE /\ Finish(t, "StoreFailure")
                   /\ UNCHANGED store
    /\ UNCHANGED <<proc, lock, common, files, menu, op, arg, loc, ev, crashed, now>>

\* a faulty variant: a failed CREATE puts the record read before back
update_create_Restores(t) ==
    /\ pc[t] = "update_create"
    /\ \E ok \in BOOLEAN :
          IF ok
              THEN /\ store' = [store EXCEPT ![arg[t].id] =
                                   Rec(arg[t].is_applied, arg[t].settings,
                                       arg[t].sort_index, loc[t].created_at, now)]
                   /\ IF arg[t].is_applied
                         THEN Goto(t, "update_file") /\ UNCHANGED res
                         ELSE Finish(t, "ok")
              ELSE /\ Finish(t, "StoreFailure")
                   /\ store' = [store EXCEPT ![arg[t].id] = loc[t].existing]
    /\ UNCHANGED <<proc, lock, common, files, menu, op, arg, loc, ev, crashed, now>>

\* update_codex_provider: CREATE codex_provider:`id` CONTENT $data
update_create(t) ==
    /\ pc[t] = "update_create"
    /\ \E ok \in BOOLEAN :
          IF ok
              THEN /\ store' = [store EXCEPT ![arg[t].id] =
                                   Rec(arg[t].is_applied, arg[t].settings,
                                       arg[t].sort_index, loc[t].created_at, now)]
                   /\ IF arg[t].is_applied
                         THEN Goto(t, "update_file") /\ UNCHANGED res
                         ELSE Finish(t, "ok")
              ELSE /\ Finish(t, "StoreFailure")
                   /\ UNCHANGED store
    /\ UNCHANGED <<proc, lock, common, files, menu, op, arg, loc, ev, crashed, now>>

\* a faulty variant: the re-apply's error is returned to the caller
update_file_Propagates(t) ==
    /\ pc[t] = "update_file"
    /\ \E fault \in FileFaults :
          LET r == apply_config_to_file(arg[t].id, fault) IN
          /\ files' = r.files
          /\ loc' = [loc EXCEPT ![t].diag = IF r.res = "ok" THEN "none" ELSE r.res]
          /\ Finish(t, r.res)
    /\ UNCHANGED <<proc, lock, store, common, menu, op, arg, ev, crashed, now>>

\* update_codex_provider: the re-apply of an applied provider; its error is
\* printed and dropped
update_file(t) ==
    /\ pc[t] = "update_file"
    /\ \E fault \in FileFaults :
          LET r == apply_config_to_file(arg[t].id, fault) IN
          /\ files' = r.files
          /\ loc' = [loc EXCEPT ![t].diag = IF r.res = "ok" THEN "none" ELSE r.res]
    /\ Finish(t, "ok")
    /\ UNCHANGED <<proc, lock, store, common, menu, op, arg, ev, crashed, now>>

\* a faulty variant: deleting an id that is not stored is an error
delete_record_NotFound(t) ==
    /\ pc[t] = "delete"
    /\ \E ok \in BOOLEAN :
          IF ok /\ store[arg[t].id].exists
              THEN /\ store' = [store EXCEPT ![arg[t].id] = NoRec]
                   /\ Emit(t, "window")
                   /\ Finish(t, "ok")
              ELSE /\ Finish(t, IF ok THEN "NotFound" ELSE "StoreFailure")
                   /\ UNCHANGED <<store, ev>>
    /\ UNCHANGED <<proc, lock, common, files, menu, op, arg, loc, crashed, now>>

\* delete_codex_provider
delete_record(t) ==
    /\ pc[t] = "delete"
    /\ \E ok \in BOOLEAN :
          IF ok
              THEN /\ store' = [store EXCEPT ![arg[t].id] = NoRec]
                   /\ Emit(t, "window")
                   /\ Finish(t, "ok")
              ELSE /\ Finish(t, "StoreFailure")
                   /\ UNCHANGED <<store, ev>>
    /\ UNCHANGED <<proc, lock, common, files, menu, op, arg, loc, crashed, now>>

\* a faulty variant: positions counted from one
SetSortIndex_OneBased(tbl, id, index, ts) ==
    [i \in ProfileIds |->
        IF tbl[i].exists /\ i = id
            THEN [tbl[i] EXCEPT !.sort_index = index + 1, !.updated_at = ts]
            ELSE tbl[i]]

\* UPDATE codex_provider SET sort_index = $index, updated_at = $now
\* WHERE provider_id = $id
SetSortIndex(tbl, id, index, ts) ==
    [i \in ProfileIds |->
        IF tbl[i].exists /\ i = id
            THEN [tbl[i] EXCEPT !.sort_index = index, !.updated_at = ts]
            ELSE tbl[i]]

\* a faulty variant: a failed write is skipped and the loop goes on
reorder_step_SkipsFailure(t) ==
    /\ pc[t] = "reorder"
    /\ IF loc[t].k >= Len(arg[t].ids)
          THEN /\ Finish(t, "ok")
               /\ UNCHANGED <<store, loc>>
          ELSE \E ok \in BOOLEAN :
                  /\ store' = IF ok THEN SetSortIndex(store, arg[t].ids[loc[t].k + 1],
                                                      loc[t].k, now)
                                    ELSE store
                  /\ loc' = [loc EXCEPT ![t].k = @ + 1]
                  /\ UNCHANGED <<pc, res>>
    /\ UNCHANGED <<proc, lock, common, files, menu, op, arg, ev, crashed, now>>

\* reorder_codex_providers: one turn of the loop, or its end
reorder_step(t) ==
    /\ pc[t] = "reorder"
    /\ IF loc[t].k >= Len(arg[t].ids)
          THEN /\ Finish(t, "ok")
               /\ UNCHANGED <<store, loc>>
          ELSE \E ok \in BOOLEAN :
                  IF ok
                      THEN /\ store' = SetSortIndex(store, arg[t].ids[loc[t].k + 1],
                                                    loc[t].k, now)
                           /\ loc' = [loc EXCEPT ![t].k = @ + 1]
                           /\ UNCHANGED <<pc, res>>
                      ELSE /\ Finish(t, "StoreFailure")
                           /\ UNCHANGED <<store, loc>>
    /\ UNCHANGED <<proc, lock, common, files, menu, op, arg, ev, crashed, now>>

\* list_codex_providers
list_query(t) ==
    /\ pc[t] = "list"
    /\ \E outcome \in {"rows", "undecodable", "error"} :
          CASE outcome = "rows" ->
                  /\ loc' = [loc EXCEPT ![t].rows = SortRows(QueryRows(store))]
                  /\ Finish(t, "ok")
            [] outcome = "undecodable" ->
                  /\ loc' = [loc EXCEPT ![t].rows = <<>>, ![t].diag = "DecodeError"]
                  /\ Finish(t, "ok")
            [] OTHER ->
                  /\ Finish(t, "StoreFailure")
                  /\ UNCHANGED loc
    /\ UNCHANGED <<proc, lock, store, common, files, menu, op, arg, ev, crashed, now>>

----------------------------------------------------------------------------
(* The common config *)

\* get_codex_common_config
get_common(t) ==
    /\ pc[t] = "get_common"
    /\ \E outcome \in {"rows", "undecodable", "error"} :
          CASE outcome = "rows" ->
                  /\ loc' = [loc EXCEPT ![t].common = common]
                  /\ Finish(t, "ok")
            [] outcome = "undecodable" ->
                  /\ loc' = [loc EXCEPT ![t].common = NoCommon,
                                        ![t].diag = "DecodeError"]
                  /\ Finish(t, "ok")
            [] OTHER ->
                  /\ Finish(t, "StoreFailure")
                  /\ UNCHANGED loc
    /\ UNCHANGED <<proc, lock, store, common, files, menu, op, arg, ev, crashed, now>>

\* save_codex_common_config: the validation and DELETE codex_common_config
save_common_delete(t) ==
    /\ pc[t] = "save_common"
    /\ IF ~IsBlank(arg[t].config) /\ ~TomlOk(arg[t].config)
          THEN Finish(t, "ParseError") /\ UNCHANGED common
          ELSE \E ok \in BOOLEAN :
                  IF ok
                      THEN /\ common' = NoCommon
                           /\ Goto(t, "save_common_create")
                           /\ UNCHANGED res
                      ELSE /\ Finish(t, "StoreFailure")
                           /\ UNCHANGED common
    /\ UNCHANGED <<proc, lock, store, files, menu, op, arg, loc, ev, crashed, now>>

\* save_codex_common_config: CREATE codex_common_config:`common`
save_common_create(t) ==
    /\ pc[t] = "save_common_create"
    /\ \E ok \in BOOLEAN :
          IF ok
              THEN /\ common' = CommonRec(arg[t].config)
                   /\ Goto(t, "save_common_file")
                   /\ UNCHANGED res
              ELSE /\ Finish(t, "StoreFailure")
                   /\ UNCHANGED common
    /\ UNCHANGED <<proc, lock, store, files, menu, op, arg, loc, ev, crashed, now>>

\* save_codex_common_config: the applied provider is looked up (LIMIT 1) and
\* re-applied; the re-apply's error is printed and dropped
save_common_file(t) ==
    /\ pc[t] = "save_common_file"
    /\ \E outcome \in {"rows", "undecodable", "error"} :
          IF outcome = "error" THEN Finish(t, "StoreFailure") /\ UNCHANGED <<files, loc>>
          ELSE IF outcome = "undecodable" \/ AppliedIds = {}
              THEN Finish(t, "ok") /\ UNCHANGED <<files, loc>>
          ELSE \E i \in AppliedIds, fault \in FileFaults :
                  LET r == apply_config_to_file(i, fault) IN
                  /\ files' = r.files
                  /\ loc' = [loc EXCEPT ![t].existing = store[i],
                                        ![t].diag = IF r.res = "ok" THEN "none"
                                                    ELSE r.res]
                  /\ Finish(t, "ok")
    /\ UNCHANGED <<proc, lock, store, common, menu, op, arg, ev, crashed, now>>

----------------------------------------------------------------------------
(* Process start and crash *)

ImportFaults == {"none", "count", "take", "read_auth", "create"}
BadJsonFile == "not json"

\* init_codex_provider_from_settings: the table it leaves.  A failing query
\* call ("count") ends the import; a failing count statement ("take") is
\* read as "no providers" and the import goes on; the CREATE of a stored id
\* is refused by the store
init_codex_provider_from_settings(fault) ==
    IF fault = "count" THEN store
    ELSE IF fault # "take" /\ Existing # {} THEN store
    ELSE IF files.auth = "absent" THEN store
    ELSE IF fault = "read_auth" \/ files.auth = BadJsonFile THEN store
    ELSE IF fault = "create" \/ store[DefaultId].exists THEN store
    ELSE [store EXCEPT ![DefaultId] =
            Rec(TRUE,
                Payload(files.auth,
                        IF files.config.exists THEN files.config.text ELSE BlankText),
                0, now, now)]

\* the application starts: the first-run import runs before any command
Startup ==
    /\ proc = "down"
    /\ proc' = "up"
    /\ \E fault \in ImportFaults : store' = init_codex_provider_from_settings(fault)
    /\ crashed' = NoCrash
    /\ UNCHANGED <<lock, common, files, menu, pc, op, arg, loc, res, ev, now>>

\* the last reading the wall clock takes
MaxClock == 2

\* time passes
Tick ==
    /\ now < MaxClock
    /\ now' = now + 1
    /\ UNCHANGED <<proc, lock, store, common, files, menu, pc, op, arg, loc, res, ev,
                   crashed>>

\* create_tray: the tray icon gets its two-item menu and the first
\* refresh_tray_menus is spawned
create_tray ==
    /\ proc = "up"
    /\ menu = NoMenu
    /\ pc["tray"] = "idle"
    /\ menu' = BaseMenu
    /\ pc' = [pc EXCEPT !["tray"] = "refresh_lock"]
    /\ op' = [op EXCEPT !["tray"] = "refresh"]
    /\ UNCHANGED <<proc, lock, store, common, files, arg, loc, res, ev, crashed, now>>

\* the process dies: every task and the lock are gone, the store and the
\* files stay as they are
Crash ==
    /\ proc = "up"
    /\ proc' = "down"
    /\ crashed' = IF lock = NoTask THEN NoCrash
                  ELSE [op |-> op[lock], pc |-> pc[lock]]
    /\ lock' = NoTask
    /\ menu' = NoMenu
    /\ pc' = [t \in Tasks |-> "idle"]
    /\ op' = [t \in Tasks |-> "none"]
    /\ arg' = [t \in Tasks |-> NoArg]
    /\ loc' = [t \in Tasks |-> NoLoc]
    /\ res' = [t \in Tasks |-> "none"]
    /\ ev' = [t \in Tasks |-> <<>>]
    /\ UNCHANGED <<store, common, files, now>>

LegacyFiles == [dir |-> TRUE, auth |-> "k0", config |-> File(TextLegacy)]

InitTasks ==
    /\ proc = "down"
    /\ lock = NoTask
    /\ menu = NoMenu
    /\ pc = [t \in Tasks |-> "idle"]
    /\ op = [t \in Tasks |-> "none"]
    /\ arg = [t \in Tasks |-> NoArg]
    /\ loc = [t \in Tasks |-> NoLoc]
    /\ res = [t \in Tasks |-> "none"]
    /\ ev = [t \in Tasks |-> <<>>]
    /\ crashed = NoCrash
    /\ now = 1

----------------------------------------------------------------------------
(* The flip: select and apply on a table of stored profiles *)

PayloadA == Payload("k1", TextEuY)
PayloadB == Payload(NoAuth, BadText)
FlipSettings == {PayloadA, PayloadB, BadPayload}
FlipCommons == {NoCommon, CommonRec(WsText), CommonRec(TextUs)}

\* the tables create, delete and select leave: any profiles, at most one applied
FlipTables ==
    {tbl \in [ProfileIds ->
                {NoRec} \cup {Rec(ap, st, NoIndex, 1, 1) :
                                 ap \in BOOLEAN, st \in FlipSettings}] :
        Cardinality({i \in ProfileIds : tbl[i].exists /\ tbl[i].applied}) <= 1}

InitFlip ==
    /\ InitTasks
    /\ store \in FlipTables
    /\ common \in FlipCommons
    /\ files = NoFiles

InvokeSelect == \E i \in ProfileIds : Invoke("win", "select", [NoArg EXCEPT !.id = i])
InvokeApply == \E i \in ProfileIds : Invoke("win", "apply", [NoArg EXCEPT !.id = i])
\* a click on the row of profile i in the installed menu
InvokeTrayApply ==
    \E k \in 1..Len(menu) :
        /\ menu[k].kind = "check"
        /\ Invoke("tray", "tray_apply", [NoArg EXCEPT !.id = menu[k].id])

FlipSteps(t) ==
    \/ Acquire(t)
    \/ Return(t)
    \/ select_unset(t)
    \/ select_set(t)
    \/ apply_file(t)
    \/ apply_unset(t)
    \/ apply_set(t)

NextFlip ==
    \/ Startup
    \/ Crash
    \/ InvokeSelect
    \/ InvokeApply
    \/ FlipSteps("win")

SpecFlip == InitFlip /\ [][NextFlip]_vars

----------------------------------------------------------------------------
(* The whole family, from a fresh installation *)

Settings == {PayloadA, BadPayload}
CommonInputs == {BlankText, TextUs, BadText}
ReorderInputs == {<<DefaultId, "a">>, <<"a">>}

Init ==
    /\ InitTasks
    /\ store = [i \in ProfileIds |-> NoRec]
    /\ common = NoCommon
    /\ files \in {NoFiles, LegacyFiles}

CreateWith(settings, flags, times) ==
    \E i \in ProfileIds, st \in settings, ap \in flags, ca \in times :
        Invoke("win", "create",
               [NoArg EXCEPT !.id = i, !.settings = st, !.is_applied = ap,
                             !.created_at = ca])
InvokeCreate == CreateWith(Settings, {FALSE}, {BlankTime})
UpdateWith(settings, times) ==
    \E i \in ProfileIds, st \in settings, ap \in BOOLEAN, ca \in times :
        Invoke("win", "update",
               [NoArg EXCEPT !.id = i, !.settings = st, !.is_applied = ap,
                             !.created_at = ca])
InvokeUpdate == UpdateWith(Settings, {BlankTime, 1})
InvokeDelete == \E i \in ProfileIds : Invoke("win", "delete", [NoArg EXCEPT !.id = i])
InvokeReorder ==
    \E ids \in ReorderInputs : Invoke("win", "reorder", [NoArg EXCEPT !.ids = ids])
InvokeList == Invoke("win", "list", NoArg)
InvokeSaveCommon ==
    \E c \in CommonInputs : Invoke("win", "save_common", [NoArg EXCEPT !.config = c])

Steps(t) ==
    \/ Acquire(t)
    \/ Return(t)
    \/ select_unset(t)
    \/ select_set(t)
    \/ apply_file(t)
    \/ apply_unset(t)
    \/ apply_set(t)
    \/ create_check(t)
    \/ create_insert(t)
    \/ update_read(t)
    \/ update_delete(t)
    \/ update_create(t)
    \/ update_file(t)
    \/ delete_record(t)
    \/ reorder_step(t)
    \/ list_query(t)
    \/ save_common_delete(t)
    \/ save_common_create(t)
    \/ save_common_file(t)

Next ==
    \/ Startup
    \/ Crash
    \/ InvokeSelect
    \/ InvokeApply
    \/ InvokeCreate
    \/ InvokeUpdate
    \/ InvokeDelete
    \/ InvokeReorder
    \/ InvokeList
    \/ InvokeSaveCommon
    \/ Steps("win")

Spec == Init /\ [][Next]_vars

----------------------------------------------------------------------------
(* Properties of the flip *)

Errors == {"NotFound", "DuplicateId", "ParseError", "IOFailure", "StoreFailure",
           "MenuFailure"}

\* the text apply is to leave in config.toml for profile i: the common layer
\* (empty when there is no record) merged under the profile's config text
CommonLayer == IF common.exists THEN common.config ELSE BlankText
MergedText(i) == merge_toml_configs(CommonLayer, store[i].settings.config).text

\* both destination files hold what apply generates from profile i
FilesGeneratedFrom(i) ==
    /\ files.dir
    /\ files.auth = AuthOf(store[i].settings)
    /\ files.config = File(MergedText(i))

\* task t takes a step of its command
StepOf(t) == pc'[t] # pc[t] /\ proc' = "up" /\ proc = "up"

\* a step of a running select or apply keeps "at most one applied profile"
C1_Step ==
    \A t \in Tasks :
        (StepOf(t) /\ Cardinality(AppliedIds) <= 1)
            => Cardinality({i \in ProfileIds : store'[i].exists /\ store'[i].applied}) <= 1

\* C1: whatever select and apply calls have run, to success or to an error,
\* without a crash, a family that had at most one applied profile never has
\* two: no step of either command takes the table from at most one applied
\* profile to two.
C1_AtMostOneApplied == [][C1_Step]_vars

\* a select has just moved the flag from one stored profile to another
C1_Witness ==
    /\ pc["win"] = "done" /\ op["win"] = "select" /\ res["win"] = "ok"
    /\ arg["win"].id = "a"
    /\ AppliedIds = {"a"}
    /\ store[DefaultId].exists
    /\ files.auth = AuthOf(store[DefaultId].settings)

\* apply flips no flag before both files are written: at either flag
\* update the files already hold the generated content, the step that writes
\* them changes no record, and when a write fails apply ends with that error,
\* no record changed and nothing broadcast.
C3_FilesBeforeFlip ==
    \A t \in Tasks :
        pc[t] \in {"apply_unset", "apply_set"}
            => (store[arg[t].id].exists /\ FilesGeneratedFrom(arg[t].id))
C3_FileStepKeepsFlags ==
    \A t \in Tasks :
        (pc[t] = "apply" /\ StepOf(t)) =>
            /\ store' = store
            /\ pc'[t] \in {"done", "apply_unset"}
            /\ pc'[t] = "done" => (res'[t] \in Errors /\ ev'[t] = <<>>)
            /\ pc'[t] # "done" =>
                  /\ store[arg[t].id].exists
                  /\ files' = [dir |-> TRUE,
                               auth |-> AuthOf(store[arg[t].id].settings),
                               config |-> File(MergedText(arg[t].id))]
\* C3: apply writes both files strictly before any flag changes, and a failed
\* write ends apply with the error and every flag as it was.
C3_WriteBeforeFlip == [](C3_FilesBeforeFlip) /\ [][C3_FileStepKeepsFlags]_vars

\* an apply failed at config.toml: auth.json is written, the flag is where it was
C3_Witness ==
    /\ pc["win"] = "done" /\ op["win"] = "apply" /\ res["win"] = "IOFailure"
    /\ arg["win"].id = "a"
    /\ AppliedIds = {DefaultId}
    /\ files.auth = "k1" /\ ~files.config.exists

\* apply of an id that is not stored ends with NotFound, apply of a
\* profile whose payload does not parse ends with ParseError (StoreFailure
\* when the lookup itself fails); either way no file is written, no record
\* changes and nothing is broadcast.
C4_Step ==
    \A t \in Tasks :
        (/\ pc[t] = "apply"
         /\ StepOf(t)
         /\ (~store[arg[t].id].exists \/ store[arg[t].id].settings.json = "bad")) =>
            /\ pc'[t] = "done"
            /\ res'[t] \in {IF store[arg[t].id].exists THEN "ParseError" ELSE "NotFound",
                            "StoreFailure"}
            /\ files' = files
            /\ store' = store
            /\ ev' = ev /\ ev[t] = <<>>
\* C4: apply of an absent id or of a malformed payload is rejected without
\* touching files, flags or listeners.
C4_ApplyRejects == [][C4_Step]_vars

\* apply of an absent id ended with NotFound beside an applied profile
C4_Witness ==
    /\ pc["win"] = "done" /\ op["win"] = "apply" /\ res["win"] = "NotFound"
    /\ ~store[arg["win"].id].exists
    /\ AppliedIds = {DefaultId}
    /\ files = NoFiles
    /\ ev["win"] = <<>>

C6_Step == \A t \in Tasks : (op[t] = "select" /\ StepOf(t)) => files' = files
\* C6: select never creates or modifies a destination file.
C6_SelectKeepsFiles == [][C6_Step]_vars

\* a profile with a good payload is selected and no file exists
C6_Witness ==
    /\ pc["win"] = "done" /\ op["win"] = "select" /\ res["win"] = "ok"
    /\ store[arg["win"].id].exists
    /\ store[arg["win"].id].settings = PayloadA
    /\ AppliedIds = {arg["win"].id}
    /\ files = NoFiles

\* C8: a process that died between the two flag updates left no applied
\* profile, and a select or apply that succeeds on a stored profile leaves
\* that profile as the only applied one.
C8_CrashInFlip ==
    /\ (proc = "down" /\ crashed.pc \in {"select_set", "apply_set"})
          => AppliedIds = {}
    /\ \A t \in Tasks :
          (/\ pc[t] = "done" /\ op[t] \in {"select", "apply"} /\ res[t] = "ok"
           /\ store[arg[t].id].exists) => AppliedIds = {arg[t].id}

\* the process died inside apply's flip, the files already written
C8_Witness ==
    /\ proc = "down"
    /\ crashed = [op |-> "apply", pc |-> "apply_set"]
    /\ Existing = ProfileIds
    /\ AppliedIds = {}
    /\ files.dir /\ files.config.exists

----------------------------------------------------------------------------
(* Properties of the whole command set *)

\* C2: in every reachable state of the profile table, whichever commands and
\* imports have run, no two profiles are applied.
C2_TableInvariant ==
    \A i, j \in ProfileIds :
        (store[i].exists /\ store[i].applied /\ store[j].exists /\ store[j].applied)
            => i = j

\* the commands that change the table or the common config
MutatingOps ==
    {"create", "update", "delete", "reorder", "select", "apply", "save_common"}

\* C9: every mutating command that ends in success has broadcast exactly one
\* change event, and the event carries an origin tag.
C9_OneEventPerMutation ==
    \A t \in Tasks :
        (pc[t] = "done" /\ res[t] = "ok" /\ op[t] \in MutatingOps) =>
            /\ Len(ev[t]) = 1
            /\ ev[t][1] \in {"window", "tray"}

\* the origin tag of the surface task t serves
SurfaceTag(t) == IF t = "tray" THEN "tray" ELSE "window"

\* C10: an apply has broadcast nothing before it ends, nothing when it ends
\* with an error, and when it ends in success exactly one event whose tag
\* names the surface that started it.
C10_ApplyEvent ==
    \A t \in Tasks :
        op[t] \in {"apply", "tray_apply"} =>
            /\ pc[t] # "done" => ev[t] = <<>>
            /\ (pc[t] = "done" /\ res[t] # "ok") => ev[t] = <<>>
            /\ (pc[t] = "done" /\ res[t] = "ok") => ev[t] = <<SurfaceTag(t)>>

----------------------------------------------------------------------------
(* Window commands and tray clicks side by side *)

\* every profile stored with a payload that parses, at most one applied
ConcTables == {tbl \in FlipTables :
                  \A i \in ProfileIds : tbl[i].exists /\ tbl[i].settings = PayloadA}

InitConc ==
    /\ InitTasks
    /\ store \in ConcTables
    /\ common = NoCommon
    /\ files = NoFiles

\* an edit that keeps the payload: the record as the window read it, with the
\* applied flag the window holds
InvokeEdit == UpdateWith({PayloadA}, {BlankTime})

ConcSteps(t) ==
    \/ Acquire(t)
    \/ Return(t)
    \/ select_unset(t)
    \/ select_set(t)
    \/ apply_file(t)
    \/ apply_unset(t)
    \/ apply_set(t)
    \/ update_read(t)
    \/ update_delete(t)
    \/ update_create(t)
    \/ update_file(t)
    \/ list_query(t)
    \/ tray_apply_file(t)
    \/ tray_apply_unset(t)
    \/ tray_apply_set(t)
    \/ refresh_lock(t)
    \/ refresh_query(t)
    \/ refresh_build(t)

NextConc ==
    \/ Startup
    \/ create_tray
    \/ InvokeSelect
    \/ InvokeApply
    \/ InvokeEdit
    \/ InvokeList
    \/ InvokeTrayApply
    \/ \E t \in Tasks : ConcSteps(t)

SpecConc == InitConc /\ [][NextConc]_vars

\* the await points at which a command is between two store calls
LockedPcs ==
    {"select", "select_set", "apply", "apply_unset", "apply_set",
     "create", "create_insert", "update", "update_delete", "update_create",
     "update_file", "delete", "reorder", "list",
     "save_common", "save_common_create", "save_common_file",
     "tray_apply", "tray_unset", "tray_set", "refresh_query"}

\* a command makes its store calls holding the lock, and while a task
\* holds the lock every change of the table, the common config and the files
\* is a step of that task: nothing runs between unset-all and set-one, nor
\* between the delete and the recreate of an update.
C7_HoldsLock == \A t \in Tasks : pc[t] \in LockedPcs => lock = t
C7_Step ==
    \A t \in Tasks :
        (lock = t /\ pc'[t] = pc[t] /\ loc'[t] = loc[t] /\ proc' = "up") =>
            UNCHANGED <<store, common, files, lock>>
\* C7: every operation holds the one lock from its first store call to its
\* last, and nothing else changes the store while it does.
C7_Serialized == [](C7_HoldsLock) /\ [][C7_Step]_vars

\* an update is between its delete and its recreate while a tray click on
\* the same profile waits for the lock
C7_Witness ==
    /\ pc["win"] = "update_create" /\ lock = "win"
    /\ ~store[arg["win"].id].exists
    /\ pc["tray"] = "lock" /\ op["tray"] = "tray_apply"
    /\ arg["tray"].id = arg["win"].id

----------------------------------------------------------------------------
(* create alone and update alone on a table of stored profiles, the clock *)
(* running *)

\* every profile absent or stored at time 1, at most one applied
TableInits ==
    {tbl \in [ProfileIds -> {NoRec} \cup {Rec(ap, PayloadA, NoIndex, 1, 1) :
                                              ap \in BOOLEAN}] :
        Cardinality({i \in ProfileIds : tbl[i].exists /\ tbl[i].applied}) <= 1}

InitTable ==
    /\ InitTasks
    /\ store \in TableInits
    /\ common = NoCommon
    /\ files = NoFiles

\* the created_at an input may carry: blank, or any reading of the clock
InputTimes == {BlankTime} \cup (1..MaxClock)

InvokeCreateAny == CreateWith({PayloadA}, BOOLEAN, InputTimes)
InvokeUpdateAny == UpdateWith({PayloadA}, InputTimes)

CreateSteps(t) ==
    \/ Acquire(t)
    \/ Return(t)
    \/ create_check(t)
    \/ create_insert(t)

NextCreate ==
    \/ Startup
    \/ Tick
    \/ InvokeCreateAny
    \/ CreateSteps("win")

SpecCreate == InitTable /\ [][NextCreate]_vars

UpdateSteps(t) ==
    \/ Acquire(t)
    \/ Return(t)
    \/ update_read(t)
    \/ update_delete(t)
    \/ update_create(t)
    \/ update_file(t)

NextUpdate ==
    \/ Startup
    \/ Tick
    \/ InvokeUpdateAny
    \/ UpdateSteps("win")

SpecUpdate == InitTable /\ [][NextUpdate]_vars

\* no step of a create whose id is stored changes a record or broadcasts, and
\* such a create ends with DuplicateId, or with the store's error when one of
\* its store calls failed
C11_Step ==
    \A t \in Tasks :
        (/\ pc[t] \in {"create", "create_insert"}
         /\ StepOf(t)
         /\ store[arg[t].id].exists) =>
            /\ store' = store
            /\ ev' = ev
            /\ pc'[t] = "done" => res'[t] \in {"DuplicateId", "StoreFailure"}
\* C11: create with an id that is already stored fails with DuplicateId and
\* leaves the stored record and every other record as they were.
C11_CreateDuplicate == [][C11_Step]_vars

\* a create on the id of the applied profile, later than its timestamps, was
\* turned down
C11_Witness ==
    /\ pc["win"] = "done" /\ op["win"] = "create" /\ res["win"] = "DuplicateId"
    /\ store[arg["win"].id] = Rec(TRUE, PayloadA, NoIndex, 1, 1)
    /\ now = 2
    /\ ev["win"] = <<>>

\* the insert of a create that succeeds
C12_Step ==
    \A t \in Tasks :
        (pc[t] = "create_insert" /\ StepOf(t) /\ res'[t] = "ok") =>
            /\ store'[arg[t].id].exists
            /\ ~store'[arg[t].id].applied
            /\ store'[arg[t].id].created_at = now
            /\ store'[arg[t].id].updated_at = now
            /\ \A j \in ProfileIds \ {arg[t].id} : store'[j] = store[j]
            /\ AppliedIds' = AppliedIds
\* C12: a successful create stores the profile unapplied with created_at =
\* updated_at = now whatever the input carries, and leaves the applied
\* profile, if any, applied.
C12_CreateUnapplied == [][C12_Step]_vars

\* a create whose input said applied and carried an old created_at succeeded
\* beside the applied profile
C12_Witness ==
    /\ pc["win"] = "done" /\ op["win"] = "create" /\ res["win"] = "ok"
    /\ arg["win"].is_applied /\ arg["win"].created_at = 1
    /\ store[arg["win"].id] = Rec(FALSE, PayloadA, NoIndex, 2, 2)
    /\ AppliedIds = ProfileIds \ {arg["win"].id}

\* the first step of an update whose id is not stored
C13_Step ==
    \A t \in Tasks :
        (pc[t] = "update" /\ StepOf(t) /\ ~store[arg[t].id].exists) =>
            /\ pc'[t] = "done"
            /\ res'[t] \in {"NotFound", "StoreFailure"}
            /\ store' = store
\* C13: update of an id that is not stored fails with NotFound whatever the
\* other input fields are, a non-blank created_at included, and creates or
\* removes no record.
C13_UpdateAbsent == [][C13_Step]_vars

\* C14: when an update of a stored profile has succeeded, the record's
\* created_at is the one it had before, the input's created_at blank or not,
\* and its updated_at is the time of the update.
C14_CreatedAtKept ==
    \A t \in Tasks :
        (/\ pc[t] = "done" /\ op[t] = "update" /\ res[t] = "ok"
         /\ loc[t].existing.exists) =>
            /\ store[arg[t].id].exists
            /\ store[arg[t].id].created_at = loc[t].existing.created_at
            /\ store[arg[t].id].updated_at = now
            /\ loc[t].existing.updated_at <= now

----------------------------------------------------------------------------
(* Edits of stored profiles and of the common config, and their re-apply *)

EditSettings == {PayloadA, PayloadB, BadPayload}

\* every profile absent or stored with any payload, at most one applied
EditTables ==
    {tbl \in [ProfileIds ->
                {NoRec} \cup {Rec(ap, st, NoIndex, 1, 1) :
                                 ap \in BOOLEAN, st \in EditSettings}] :
        Cardinality({i \in ProfileIds : tbl[i].exists /\ tbl[i].applied}) <= 1}

InitEdit ==
    /\ InitTasks
    /\ store \in EditTables
    /\ common \in FlipCommons
    /\ files = NoFiles

InvokeUpdateEdit == UpdateWith(EditSettings, {BlankTime})

EditSteps(t) ==
    \/ Acquire(t)
    \/ Return(t)
    \/ update_read(t)
    \/ update_delete(t)
    \/ update_create(t)
    \/ update_file(t)
    \/ save_common_delete(t)
    \/ save_common_create(t)
    \/ save_common_file(t)

NextEdit ==
    \/ Startup
    \/ InvokeUpdateEdit
    \/ InvokeSaveCommon
    \/ EditSteps("win")

SpecEdit == InitEdit /\ [][NextEdit]_vars

\* the errors a re-apply can end with, as the command prints them
ReapplyErrors == {"NotFound", "ParseError", "IOFailure", "StoreFailure"}

\* C15: when the re-apply that follows the record write of an update or of a
\* common-config save has failed, the command has still ended in success and
\* the record it wrote is stored as written.
C15_ReapplyErrorSwallowed ==
    \A t \in Tasks :
        (/\ pc[t] = "done" /\ op[t] \in {"update", "save_common"}
         /\ loc[t].diag \in ReapplyErrors) =>
            /\ res[t] = "ok"
            /\ op[t] = "update" =>
                  store[arg[t].id] = Rec(arg[t].is_applied, arg[t].settings,
                                         arg[t].sort_index, loc[t].created_at, now)
            /\ op[t] = "save_common" => common = CommonRec(arg[t].config)

\* an applied profile was given a config text that does not merge with the
\* common config: the update succeeded, the files were not written
C15_Witness ==
    /\ pc["win"] = "done" /\ op["win"] = "update" /\ res["win"] = "ok"
    /\ loc["win"].diag = "ParseError"
    /\ common = CommonRec(TextUs)
    /\ store[arg["win"].id].settings = PayloadB
    /\ store[arg["win"].id].applied
    /\ files = NoFiles

\* the payload parses and its config text merges with the stored common config
PayloadParses(settings) ==
    settings.json = "obj" /\ merge_toml_configs(CommonLayer, settings.config).ok

\* C16: when an update of the applied profile, or a common-config save beside
\* an applied profile, has succeeded and its re-apply did not fail, the files
\* hold what apply generates from the stored profile and common config, and
\* the profile is still the applied one.
C16_FilesFollowEdits ==
    \A t \in Tasks :
        (pc[t] = "done" /\ res[t] = "ok" /\ loc[t].diag = "none") =>
            /\ (/\ op[t] = "update"
                /\ loc[t].existing.exists /\ loc[t].existing.applied
                /\ PayloadParses(arg[t].settings)) =>
                  /\ store[arg[t].id].exists /\ store[arg[t].id].applied
                  /\ FilesGeneratedFrom(arg[t].id)
            /\ (op[t] = "save_common" /\ loc[t].existing.exists) =>
                  \E i \in AppliedIds :
                      store[i] = loc[t].existing /\ FilesGeneratedFrom(i)

----------------------------------------------------------------------------
(* Ordering: reorder, list and the common-config fetch *)

\* the sort indices a stored profile may carry: none, or a position
SortIndices == {NoIndex} \cup (0..NumUserIds)

OrderTables ==
    [ProfileIds -> {NoRec} \cup {Rec(FALSE, PayloadA, si, 1, 1) : si \in SortIndices}]

InitOrder ==
    /\ InitTasks
    /\ store \in OrderTables
    /\ common \in {NoCommon, CommonRec(TextUs)}
    /\ files = NoFiles

\* the id lists without a repeated id, stored or not, of any length
IdLists ==
    {ids \in UNION {[1..n -> ProfileIds] : n \in 0..Cardinality(ProfileIds)} :
        \A k, l \in 1..Len(ids) : ids[k] = ids[l] => k = l}

InvokeReorderAny ==
    \E ids \in IdLists : Invoke("win", "reorder", [NoArg EXCEPT !.ids = ids])
InvokeGetCommon == Invoke("win", "get_common", NoArg)

OrderSteps(t) ==
    \/ Acquire(t)
    \/ Return(t)
    \/ reorder_step(t)
    \/ list_query(t)
    \/ get_common(t)

NextOrder ==
    \/ Startup
    \/ InvokeReorderAny
    \/ InvokeList
    \/ InvokeGetCommon
    \/ OrderSteps("win")

SpecOrder == InitOrder /\ [][NextOrder]_vars

\* the ids of a list of rows, in the order of the list
RowIds(rows) == [k \in 1..Len(rows) |-> rows[k].id]
\* ids names every stored profile exactly once
IsPermutation(ids) ==
    /\ Len(ids) = Cardinality(Existing)
    /\ \A i \in Existing : \E k \in 1..Len(ids) : ids[k] = i

\* after a reorder of all stored profiles each has its position as sort index
\* and list returns them in the order given
C17_Reordered ==
    \A t \in Tasks :
        (/\ pc[t] = "done" /\ op[t] = "reorder" /\ res[t] = "ok"
         /\ IsPermutation(arg[t].ids)) =>
            /\ \A k \in 1..Len(arg[t].ids) :
                  store[arg[t].ids[k]].sort_index = k - 1
            /\ RowIds(SortRows(QueryRows(store))) = arg[t].ids
\* a step of reorder keeps every field but sort_index and updated_at
C17_Step ==
    \A t \in Tasks :
        pc[t] = "reorder" =>
            \A i \in ProfileIds :
                IF store[i].exists
                    THEN /\ store'[i].exists
                         /\ store'[i].applied = store[i].applied
                         /\ store'[i].settings = store[i].settings
                         /\ store'[i].created_at = store[i].created_at
                    ELSE store'[i] = store[i]
\* C17: a successful reorder of a permutation of the stored ids gives the
\* profile at position i the sort index i, list then returns the profiles in
\* that order, and no field but sort index and updated_at changes.
C17_ReorderThenList == [](C17_Reordered) /\ [][C17_Step]_vars

\* the two stored profiles were put in the order opposite to the store's
C17_Witness ==
    /\ pc["win"] = "done" /\ op["win"] = "reorder" /\ res["win"] = "ok"
    /\ Existing = ProfileIds
    /\ Len(arg["win"].ids) = Cardinality(ProfileIds)
    /\ arg["win"].ids[1] = DefaultId
    /\ store[DefaultId].sort_index = 0
    /\ RowIds(QueryRows(store)) # arg["win"].ids

\* while reorder runs, the items before the loop index have their positions
\* as sort indices
C18_PrefixAssigned ==
    \A t \in Tasks :
        (op[t] = "reorder" /\ pc[t] \in {"reorder", "done"}) =>
            \A k \in 1..loc[t].k :
                store[arg[t].ids[k]].exists =>
                    store[arg[t].ids[k]].sort_index = k - 1
\* a turn of the loop writes the item at the loop index and no other; a write
\* that fails changes nothing and ends reorder with the error
C18_Step ==
    \A t \in Tasks :
        (pc[t] = "reorder" /\ loc[t].k < Len(arg[t].ids)) =>
            /\ \A i \in ProfileIds \ {arg[t].ids[loc[t].k + 1]} : store'[i] = store[i]
            /\ pc'[t] = "done" =>
                  /\ res'[t] = "StoreFailure"
                  /\ store' = store
                  /\ loc'[t].k = loc[t].k
\* C18: when the write for position k of a reorder fails, reorder returns
\* that error, the items before k keep their new sort indices and the items
\* from k on keep the ones they had.
C18_ReorderPartial == [](C18_PrefixAssigned) /\ [][C18_Step]_vars

\* the second write of a reorder failed: the first item has its new index,
\* the second the one it had
C18_Witness ==
    /\ pc["win"] = "done" /\ op["win"] = "reorder" /\ res["win"] = "StoreFailure"
    /\ Len(arg["win"].ids) = Cardinality(ProfileIds)
    /\ loc["win"].k = 1
    /\ Existing = ProfileIds
    /\ store[arg["win"].ids[1]].sort_index = 0
    /\ store[arg["win"].ids[2]].sort_index = 0

\* the sort key list uses: the sort index, 0 when there is none
IndexOrZero(row) == IF row.sort_index = NoIndex THEN 0 ELSE row.sort_index
\* the place of a profile in the order the store returns rows
RECURSIVE StorePlace(_, _)
StorePlace(i, k) == IF IdOrder[k] = i THEN k ELSE StorePlace(i, k + 1)

\* the rows list returned hold every stored profile once, ascending by sort
\* index, equal indices in the store's order
C19_Listed ==
    \A t \in Tasks :
        (/\ pc[t] = "done" /\ op[t] = "list" /\ res[t] = "ok"
         /\ loc[t].diag = "none") =>
            LET rows == loc[t].rows IN
            /\ Len(rows) = Cardinality(Existing)
            /\ \A i \in Existing :
                  \E k \in 1..Len(rows) :
                      /\ rows[k].id = i
                      /\ rows[k].sort_index = store[i].sort_index
            /\ \A k, l \in 1..Len(rows) :
                  k < l =>
                      \/ IndexOrZero(rows[k]) < IndexOrZero(rows[l])
                      \/ /\ IndexOrZero(rows[k]) = IndexOrZero(rows[l])
                         /\ StorePlace(rows[k].id, 1) < StorePlace(rows[l].id, 1)
\* list changes no stored state
C19_Step ==
    \A t \in Tasks :
        (pc[t] = "list" /\ StepOf(t)) => UNCHANGED <<store, common, files>>
\* C19: list returns every stored profile exactly once in ascending order of
\* sort index, a missing index counting as 0 and equal indices keeping the
\* store's order, and changes no stored state.
C19_ListSorted == [](C19_Listed) /\ [][C19_Step]_vars

\* a profile without sort index is listed before one with index 1 that the
\* store returns first
C19_Witness ==
    /\ pc["win"] = "done" /\ op["win"] = "list" /\ res["win"] = "ok"
    /\ Len(loc["win"].rows) = Cardinality(ProfileIds)
    /\ store["a"].exists /\ store["a"].sort_index = 1
    /\ store[DefaultId].exists /\ store[DefaultId].sort_index = NoIndex
    /\ loc["win"].rows[1].id = DefaultId

\* C20: list and the common-config fetch never end with an error: whatever
\* fails in the store, they end in success, with the empty list or no config.
C20_ReadsNeverFail ==
    \A t \in Tasks :
        (pc[t] = "done" /\ op[t] \in {"list", "get_common"}) =>
            /\ res[t] = "ok"
            /\ loc[t].diag # "none" => (loc[t].rows = <<>> /\ loc[t].common = NoCommon)

----------------------------------------------------------------------------
(* First-run import: startups, crashes and deletes *)

ImportFiles == {NoFiles, LegacyFiles, [LegacyFiles EXCEPT !.auth = BadJsonFile],
                [LegacyFiles EXCEPT !.config = NoFile]}

InitImport ==
    /\ InitTasks
    /\ store \in TableInits
    /\ common = NoCommon
    /\ files \in ImportFiles

ImportSteps(t) ==
    \/ Acquire(t)
    \/ Return(t)
    \/ delete_record(t)

NextImport ==
    \/ Startup
    \/ Crash
    \/ Tick
    \/ InvokeDelete
    \/ ImportSteps("win")

SpecImport == InitImport /\ [][NextImport]_vars

\* the profile the import synthesises from the files on disk
C21_Imported(r) ==
    /\ r.exists /\ r.applied /\ r.sort_index = 0
    /\ r.settings.json = "obj"
    /\ r.settings.auth = files.auth
    /\ r.settings.config = (IF files.config.exists THEN files.config.text ELSE BlankText)

\* a startup: with a non-empty table, or without the legacy auth file, the
\* table stays as it is; with an empty table and the file present the
\* table stays empty (the import failed) or gains exactly the synthetic
\* profile
C21_Step ==
    (proc = "down" /\ proc' = "up") =>
        IF Existing # {} \/ files.auth = "absent"
            THEN store' = store
            ELSE \/ store' = store
                 \/ /\ C21_Imported(store'[DefaultId])
                    /\ \A i \in ProfileIds \ {DefaultId} : store'[i] = NoRec

\* C21: the first-run import creates a profile only when the table is empty
\* and the legacy file exists, and then exactly one, with the fixed id, sort
\* index 0 and applied; at a startup with a non-empty table it changes
\* nothing.
C21_ImportOnlyWhenEmpty == [][C21_Step]_vars

----------------------------------------------------------------------------
(* Function calls on their own: one call per behaviour, inputs drawn at start *)

\* the state in which function o is about to be called on a pair of
\* arguments drawn from pairs
InitCallOn(o, pairs) ==
    /\ proc = "up"
    /\ lock = NoTask
    /\ menu = NoMenu
    /\ store = [i \in ProfileIds |-> NoRec]
    /\ common = NoCommon
    /\ files = NoFiles
    /\ pc = [t \in Tasks |-> IF t = "win" THEN "call" ELSE "idle"]
    /\ op = [t \in Tasks |-> IF t = "win" THEN o ELSE "none"]
    /\ \E xy \in pairs :
          arg = [t \in Tasks |-> IF t = "win" THEN [NoArg EXCEPT !.x = xy[1], !.y = xy[2]]
                                 ELSE NoArg]
    /\ loc = [t \in Tasks |-> NoLoc]
    /\ res = [t \in Tasks |-> "none"]
    /\ ev = [t \in Tasks |-> <<>>]
    /\ crashed = NoCrash
    /\ now = 1

InitCall(o, xs, ys) == InitCallOn(o, xs \X ys)

\* the call returns r with result code c
Returned(t, r, c) ==
    /\ loc' = [loc EXCEPT ![t].out = r]
    /\ Finish(t, c)
    /\ UNCHANGED <<proc, lock, store, common, files, menu, op, arg, ev, crashed, now>>

Called(o) == pc["win"] = "done" /\ op["win"] = o

----------------------------------------------------------------------------
(* merge_toml_configs on texts of scalars and tables *)

\* the longest text merged
MaxLines == 2

\* a comment line: not blank, parses, defines no key
CommentLine == [kind |-> "comment", key |-> "", val |-> ""]

\* TOML values: a scalar, or a table of sub-keys
SubKeys == {"p", "q"}
NoSub == [k \in {} |-> ""]
Scalar(v) == [tag |-> "scalar", v |-> v, sub |-> NoSub]
Table(m) == [tag |-> "table", v |-> "", sub |-> m]
MergeVals == {Scalar("s"), Table([k \in {"p"} |-> "1"]), Table([k \in {"q"} |-> "2"])}
MergeLines == {KV(k, v) : k \in Keys, v \in MergeVals} \cup {WsLine, BadLine, CommentLine}
MergeTexts == UNION {[1..n -> MergeLines] : n \in 0..MaxLines}

InitMerge == InitCall("merge_toml_configs", MergeTexts, MergeTexts)

merge_call(t) ==
    /\ pc[t] = "call" /\ op[t] = "merge_toml_configs"
    /\ LET r == merge_toml_configs(arg[t].x, arg[t].y) IN
          Returned(t, r.text, IF r.ok THEN "ok" ELSE "ParseError")

NextMerge == merge_call("win")

SpecMerge == InitMerge /\ [][NextMerge]_vars

\* C22: merge_toml_configs(common, provider) returns the other text as it is
\* when either text is blank; otherwise it fails with a parse error when
\* either text is malformed, and else returns a text whose top-level keys are
\* those of the two texts, each with the provider's value when the provider
\* has the key (a table replaced as a whole) and with common's value when
\* only common has it.
C22_MergeLayered ==
    Called("merge_toml_configs") =>
        LET c == arg["win"].x
            p == arg["win"].y
            out == loc["win"].out
        IN  IF IsBlank(c) THEN res["win"] = "ok" /\ out = p
            ELSE IF IsBlank(p) THEN res["win"] = "ok" /\ out = c
            ELSE IF ~TomlOk(c) \/ ~TomlOk(p) THEN res["win"] = "ParseError"
            ELSE /\ res["win"] = "ok"
                 /\ TomlOk(out)
                 /\ TomlKeys(out) = TomlKeys(c) \cup TomlKeys(p)
                 /\ \A k \in TomlKeys(out) :
                       TomlTable(out)[k] = IF k \in TomlKeys(p) THEN TomlTable(p)[k]
                                           ELSE TomlTable(c)[k]

\* both texts hold the same key with different tables, and common holds a key
\* of its own
C22_Witness ==
    /\ Called("merge_toml_configs") /\ res["win"] = "ok"
    /\ arg["win"].x = <<KV("model", Table([k \in {"p"} |-> "1"])), KV("region", Scalar("s"))>>
    /\ arg["win"].y = <<KV("model", Table([k \in {"q"} |-> "2"]))>>
    /\ loc["win"].out = <<KV("model", Table([k \in {"q"} |-> "2"])), KV("region", Scalar("s"))>>

----------------------------------------------------------------------------
(* deep_merge_json and clean_empty_values on JSON documents *)

\* the deepest nesting of a document
MaxDepth == 2

\* serde_json::Value: null, a string, an array or an object
JsonKeys == {"agents", "model"}
NoItems == <<>>
JNull == [t |-> "null", m |-> NoSub, a |-> NoItems]
JStr == [t |-> "str", m |-> NoSub, a |-> NoItems]
JArr(items) == [t |-> "arr", m |-> NoSub, a |-> items]
JObj(map) == [t |-> "obj", m |-> map, a |-> NoItems]
JEmptyObj == JObj(NoSub)

\* the documents of nesting depth n or less: under "agents" any document one
\* level shallower, under "model" a leaf
Leaves == {JNull, JStr, JArr(NoItems), JEmptyObj}
RECURSIVE Docs(_)
Docs(n) ==
    IF n = 0 THEN Leaves
    ELSE LET sub == Docs(n - 1) IN
         sub \cup {JObj([k \in {"agents"} |-> d]) : d \in sub}
             \cup {JObj([k \in {"model"} |-> l]) : l \in Leaves}
             \cup {JObj([k \in JsonKeys |-> IF k = "agents" THEN d ELSE l]) :
                      d \in sub, l \in Leaves}
             \cup {JArr(<<d>>) : d \in sub}

\* a faulty variant: an entry is tested before it is cleaned
RECURSIVE clean_empty_values_TestFirst(_)
clean_empty_values_TestFirst(value) ==
    IF value.t # "obj" THEN value
    ELSE LET keep == {k \in DOMAIN value.m :
                         /\ ~(value.m[k].t = "obj" /\ DOMAIN value.m[k].m = {})
                         /\ value.m[k].t # "null"}
         IN  JObj([k \in keep |-> clean_empty_values_TestFirst(value.m[k])])

RECURSIVE clean_empty_values(_)
clean_empty_values(value) ==
    IF value.t # "obj" THEN value
    ELSE LET cleaned == [k \in DOMAIN value.m |-> clean_empty_values(value.m[k])]
             keep == {k \in DOMAIN value.m :
                         /\ ~(cleaned[k].t = "obj" /\ DOMAIN cleaned[k].m = {})
                         /\ cleaned[k].t # "null"}
         IN  JObj([k \in keep |-> cleaned[k]])

RECURSIVE deep_merge_json(_, _)
deep_merge_json(base, overlay) ==
    IF base.t = "obj" /\ overlay.t = "obj"
        THEN JObj([k \in DOMAIN base.m \cup DOMAIN overlay.m |->
                     IF k \notin DOMAIN overlay.m THEN base.m[k]
                     ELSE IF k \notin DOMAIN base.m THEN overlay.m[k]
                     ELSE IF base.m[k].t = "obj" /\ overlay.m[k].t = "obj"
                         THEN deep_merge_json(base.m[k], overlay.m[k])
                     ELSE overlay.m[k]])
        ELSE base

\* the calls checked: clean_empty_values(x), deep_merge_json(x, {}) and
\* deep_merge_json(x, x)
InitJson ==
    \/ InitCall("clean_empty_values", Docs(MaxDepth), {JNull})
    \/ InitCallOn("deep_merge_json",
                  {<<d, JEmptyObj>> : d \in Docs(MaxDepth)}
                      \cup {<<d, d>> : d \in Docs(MaxDepth)})

clean_call(t) ==
    /\ pc[t] = "call" /\ op[t] = "clean_empty_values"
    /\ Returned(t, clean_empty_values(arg[t].x), "ok")

deep_merge_call(t) ==
    /\ pc[t] = "call" /\ op[t] = "deep_merge_json"
    /\ Returned(t, deep_merge_json(arg[t].x, arg[t].y), "ok")

NextJson ==
    \/ clean_call("win")
    \/ deep_merge_call("win")

SpecJson == InitJson /\ [][NextJson]_vars

\* no entry of an object, at any depth of object nesting, is null or an
\* empty object
RECURSIVE C23_Pruned(_)
C23_Pruned(v) ==
    v.t = "obj" =>
        \A k \in DOMAIN v.m :
            /\ v.m[k].t # "null"
            /\ ~(v.m[k].t = "obj" /\ DOMAIN v.m[k].m = {})
            /\ C23_Pruned(v.m[k])

\* every array and string entry of x, at any depth of object nesting that
\* is left, is in v as it was
RECURSIVE C23_Kept(_, _)
C23_Kept(x, v) ==
    x.t = "obj" =>
        /\ v.t = "obj" /\ DOMAIN v.m \subseteq DOMAIN x.m
        /\ \A k \in DOMAIN x.m :
              /\ x.m[k].t \in {"arr", "str"} => (k \in DOMAIN v.m /\ v.m[k] = x.m[k])
              /\ k \in DOMAIN v.m => C23_Kept(x.m[k], v.m[k])

\* C23: merging the empty object over a document, cleaned or not, and
\* merging a document over itself give the document back; a cleaned document
\* has no null and no empty object as an entry at any depth of object
\* nesting, and keeps every array, empty ones too.
C23_MergeAndPrune ==
    /\ Called("deep_merge_json") => loc["win"].out = arg["win"].x
    /\ Called("clean_empty_values") =>
          /\ C23_Pruned(loc["win"].out)
          /\ C23_Kept(arg["win"].x, loc["win"].out)
          /\ (arg["win"].x.t # "obj" => loc["win"].out = arg["win"].x)

\* an object that is empty only after its own null entry went is removed,
\* next to an empty array that stays
C23_Witness ==
    /\ Called("clean_empty_values")
    /\ arg["win"].x = JObj([k \in JsonKeys |->
                              IF k = "agents" THEN JObj([j \in {"model"} |-> JNull])
                              ELSE JArr(NoItems)])
    /\ loc["win"].out = JObj([k \in {"model"} |-> JArr(NoItems)])

----------------------------------------------------------------------------
(* Stored skill paths: to_relative_central_path and resolve_skill_central_path *)

\* the longest path text drawn
MaxChars == 4

\* a path is a sequence of characters; the platform of the build decides how
\* std::path reads it
Platforms == {"unix", "windows"}
Letters == {"a", "c"}
Chars == Letters \cup {"/", "\\", ":"}
PathTexts == UNION {[1..n -> Chars] : n \in 0..MaxChars}
Separators(os) == IF os = "windows" THEN {"/", "\\"} ELSE {"/"}

\* str::split on a set of separator characters: every piece, empty ones too
RECURSIVE SplitOn(_, _)
SplitOn(s, seps) ==
    IF \A i \in 1..Len(s) : s[i] \notin seps THEN <<s>>
    ELSE LET i == CHOOSE j \in 1..Len(s) :
                      s[j] \in seps /\ \A h \in 1..(j - 1) : s[h] \notin seps
         IN  <<SubSeq(s, 1, i - 1)>> \o SplitOn(SubSeq(s, i + 1, Len(s)), seps)
Segments(s, seps) == SelectSeq(SplitOn(s, seps), LAMBDA c : Len(c) > 0)

\* std::path::Path::components: a drive prefix (Windows only), the root and
\* the normal components
HasDrive(os, s) == os = "windows" /\ Len(s) >= 2 /\ s[1] \in Letters /\ s[2] = ":"
PathBody(os, s) == IF HasDrive(os, s) THEN SubSeq(s, 3, Len(s)) ELSE s
HasRoot(os, s) == Len(PathBody(os, s)) > 0 /\ PathBody(os, s)[1] \in Separators(os)
Components(os, s) ==
    [prefix |-> IF HasDrive(os, s) THEN s[1] ELSE "",
     root |-> HasRoot(os, s),
     comps |-> Segments(PathBody(os, s), Separators(os))]

\* Path::is_absolute
is_absolute(os, s) ==
    IF os = "windows" THEN HasDrive(os, s) /\ HasRoot(os, s) ELSE HasRoot(os, s)

\* the text left of s after its first k components, without the separators
\* around it (Components::as_path)
RECURSIVE TrimLeft(_, _)
TrimLeft(s, seps) ==
    IF Len(s) > 0 /\ s[1] \in seps THEN TrimLeft(Tail(s), seps) ELSE s
RECURSIVE TrimRight(_, _)
TrimRight(s, seps) ==
    IF Len(s) > 0 /\ s[Len(s)] \in seps THEN TrimRight(SubSeq(s, 1, Len(s) - 1), seps)
    ELSE s
RECURSIVE DropWhileNot(_, _)
DropWhileNot(s, seps) ==
    IF Len(s) > 0 /\ s[1] \notin seps THEN DropWhileNot(Tail(s), seps) ELSE s
RECURSIVE AfterComponents(_, _, _)
AfterComponents(s, k, seps) ==
    IF k = 0 THEN TrimRight(TrimLeft(s, seps), seps)
    ELSE AfterComponents(DropWhileNot(TrimLeft(s, seps), seps), k - 1, seps)

\* Path::strip_prefix
IsUnder(os, s, base) ==
    LET p == Components(os, s)
        b == Components(os, base)
    IN  /\ p.prefix = b.prefix /\ p.root = b.root
        /\ Len(b.comps) <= Len(p.comps)
        /\ SubSeq(p.comps, 1, Len(b.comps)) = b.comps
strip_prefix(os, s, base) ==
    AfterComponents(PathBody(os, s), Len(Components(os, base).comps), Separators(os))

\* str::replace('\\', "/")
ReplaceBackslash(s) == [i \in 1..Len(s) |-> IF s[i] = "\\" THEN "/" ELSE s[i]]

to_relative_central_path(os, absolute_path, central_dir) ==
    IF IsUnder(os, absolute_path, central_dir)
        THEN ReplaceBackslash(strip_prefix(os, absolute_path, central_dir))
    ELSE IF Components(os, absolute_path).comps # <<>>
        THEN Components(os, absolute_path).comps[Len(Components(os, absolute_path).comps)]
    ELSE ReplaceBackslash(absolute_path)

\* a faulty variant: only the leading '/' counts as absolute
is_any_platform_absolute_UnixOnly(path) == Len(path) >= 1 /\ path[1] = "/"

is_any_platform_absolute(path) ==
    \/ Len(path) >= 1 /\ path[1] = "/"
    \/ /\ Len(path) >= 3
       /\ path[1] \in Letters
       /\ path[2] = ":"
       /\ path[3] \in {"\\", "/"}

\* stored_path.rsplit(|c| c == '/' || c == '\\').find(|s| !s.is_empty())
\*            .unwrap_or(stored_path)
LastSegment(path) ==
    LET parts == Segments(path, {"/", "\\"}) IN
    IF parts = <<>> THEN path ELSE parts[Len(parts)]

\* PathBuf::join
PathJoin(os, base, s) ==
    LET sep == IF os = "windows" THEN "\\" ELSE "/"
        needSep == Len(base) > 0 /\ base[Len(base)] \notin Separators(os)
                      /\ ~(HasDrive(os, base) /\ Len(base) = 2)
    IN  IF is_absolute(os, s) \/ HasDrive(os, s) THEN s
        ELSE IF HasRoot(os, s)
            THEN (IF HasDrive(os, base) THEN SubSeq(base, 1, 2) ELSE <<>>) \o s
        ELSE base \o (IF needSep THEN <<sep>> ELSE <<>>) \o s

resolve_skill_central_path(os, stored_path, current_central_dir, exists) ==
    IF is_absolute(os, stored_path) /\ exists THEN stored_path
    ELSE IF is_any_platform_absolute(stored_path)
        THEN PathJoin(os, current_central_dir, LastSegment(stored_path))
    ELSE PathJoin(os, current_central_dir, stored_path)

\* the central directory of each platform, and the file names a platform
\* allows under it
CentralDir(os) == IF os = "windows" THEN <<"c", ":", "\\", "c">> ELSE <<"/", "c">>
ValidNames(os, s) == os = "windows" => \A i \in 1..Len(s) : s[i] # ":"
Env(os, exists) == [os |-> os, dir |-> CentralDir(os), exists |-> exists]

\* round trips of the paths under the central directory, and resolutions of
\* any stored text
InitPaths ==
    \/ InitCallOn("round_trip",
                  {<<CentralDir(os) \o <<"/">> \o r, Env(os, FALSE)>> :
                       os \in Platforms, r \in {s \in PathTexts : ValidNames("windows", s)}}
                  \cup {<<CentralDir("unix") \o <<"/">> \o r, Env("unix", FALSE)>> :
                       r \in PathTexts})
    \/ InitCallOn("resolve",
                  {<<s, Env(os, ex)>> : s \in PathTexts, os \in Platforms, ex \in BOOLEAN})

to_relative_call(t) ==
    /\ pc[t] = "call" /\ op[t] = "round_trip"
    /\ loc' = [loc EXCEPT ![t].out =
                  to_relative_central_path(arg[t].y.os, arg[t].x, arg[t].y.dir)]
    /\ Goto(t, "resolve")
    /\ UNCHANGED <<proc, lock, store, common, files, menu, op, arg, res, ev, crashed, now>>

resolve_call(t) ==
    /\ \/ pc[t] = "resolve" /\ op[t] = "round_trip"
       \/ pc[t] = "call" /\ op[t] = "resolve"
    /\ \E ex \in (IF op[t] = "resolve" THEN {arg[t].y.exists} ELSE BOOLEAN) :
          Returned(t, resolve_skill_central_path(
                         arg[t].y.os,
                         IF op[t] = "round_trip" THEN loc[t].out ELSE arg[t].x,
                         arg[t].y.dir, ex), "ok")

NextPaths ==
    \/ to_relative_call("win")
    \/ resolve_call("win")

SpecPaths == InitPaths /\ [][NextPaths]_vars

\* C24: a path under the central directory, made relative for storage and
\* resolved again against the same directory, is the path it was.
C24_RoundTrip ==
    Called("round_trip") =>
        Components(arg["win"].y.os, loc["win"].out)
            = Components(arg["win"].y.os, arg["win"].x)

\* the shapes of an absolute path: a leading '/', or a letter, ':' and a
\* separator of either kind
C25_AbsoluteShape(s) ==
    \/ Len(s) >= 1 /\ s[1] = "/"
    \/ Len(s) >= 3 /\ s[1] \in Letters /\ s[2] = ":" /\ s[3] \in {"/", "\\"}

\* C25: a stored path that is absolute for this platform and exists is
\* returned as it is; else a path of any platform's absolute shape gives the
\* central directory joined with its last non-empty segment, cut at '/' and
\* '\' alike; else the stored path is joined under the central directory.  A
\* Windows path met on another platform gives centralDir/<last segment>.
C25_ResolveStored ==
    Called("resolve") =>
        LET os == arg["win"].y.os
            dir == arg["win"].y.dir
            s == arg["win"].x
            out == loc["win"].out
            parts == Segments(s, {"/", "\\"})
        IN  IF is_absolute(os, s) /\ arg["win"].y.exists THEN out = s
            ELSE IF C25_AbsoluteShape(s)
                THEN parts # <<>> =>
                        /\ out = PathJoin(os, dir, parts[Len(parts)])
                        /\ os = "unix" => out = dir \o <<"/">> \o parts[Len(parts)]
            ELSE out = PathJoin(os, dir, s)

\* a Windows path resolved on a Unix build
C25_Witness ==
    /\ Called("resolve")
    /\ arg["win"].y.os = "unix"
    /\ arg["win"].x = <<"c", ":", "\\", "a">>
    /\ loc["win"].out = <<"/", "c", "/", "a">>

----------------------------------------------------------------------------
(* The tray: rebuilds of the menu next to clicks on its rows and deletes *)

InitTray ==
    /\ InitTasks
    /\ store \in TableInits
    /\ common = NoCommon
    /\ files = NoFiles

\* a click on a profile row: on_menu_event spawns apply_claude_provider
TrayClick(t) ==
    \E k \in 1..Len(menu) :
        /\ menu[k].kind = "check"
        /\ Invoke(t, "tray_apply", [NoArg EXCEPT !.id = menu[k].id])

TraySteps(t) ==
    \/ Acquire(t)
    \/ Return(t)
    \/ tray_apply_file(t)
    \/ tray_apply_unset(t)
    \/ tray_apply_set(t)
    \/ refresh_lock(t)
    \/ refresh_query(t)
    \/ refresh_build(t)
    \/ delete_record(t)

NextTray ==
    \/ Startup
    \/ create_tray
    \/ InvokeDelete
    \/ \E t \in Tasks : TrayClick(t)
    \/ \E t \in Tasks : TraySteps(t)

SpecTray == InitTray /\ [][NextTray]_vars

\* a rebuild's query that decodes returns one row per stored profile, with
\* the profile's applied flag
C26_QueryStep(t) ==
    (pc[t] = "refresh_query" /\ pc'[t] = "refresh_build" /\ loc'[t].decoded) =>
        LET rows == loc'[t].rows IN
        /\ Len(rows) = Cardinality(Existing)
        /\ \A i \in Existing :
              \E k \in 1..Len(rows) : rows[k].id = i /\ rows[k].applied = store[i].applied

\* the menu a rebuild installs: one enabled check row per row queried, checked
\* iff applied, or the one disabled placeholder when no row was queried
C26_BuildStep(t) ==
    (pc[t] = "refresh_build" /\ pc'[t] = "done" /\ res'[t] = "ok") =>
        LET rows == loc[t].rows IN
        IF rows = <<>>
            THEN /\ Len(menu') = 1
                 /\ menu'[1].kind = "placeholder" /\ ~menu'[1].enabled
            ELSE /\ Len(menu') = Len(rows)
                 /\ \A k \in 1..Len(rows) :
                       /\ menu'[k].kind = "check" /\ menu'[k].enabled
                       /\ menu'[k].id = rows[k].id
                       /\ menu'[k].checked = rows[k].applied

C27_Rebuilding(t) == pc[t] \in {"refresh_lock", "refresh_query", "refresh_build"}

\* C27: whatever the interleaving of rebuilds with each other and with
\* mutations, once no rebuild is running the installed menu is the rendering
\* of the rows read by the rebuild that queried last.
C27_LastQueryWins ==
    (\A t \in Tasks : ~C27_Rebuilding(t)) =>
        \A t \in Tasks :
            (pc[t] = "done" /\ res[t] = "ok" /\ loc[t].seq = 2) =>
                menu = BuildMenu(loc[t].rows)

----------------------------------------------------------------------------
(* Records read with current (snake_case) and legacy (camelCase) keys *)

\* the values of a record's fields
VNull == [t |-> "null", v |-> ""]
VStr(s) == [t |-> "str", v |-> s]
VBool(b) == [t |-> "bool", v |-> IF b THEN "true" ELSE "false"]
VInt(n) == [t |-> "int", v |-> n]
FieldVals == {VNull, VStr("x"), VStr("y"), VBool(TRUE), VBool(FALSE), VInt("1")}

\* Option<T>
None == [some |-> FALSE, v |-> ""]
Some(s) == [some |-> TRUE, v |-> s]
NoValue == [some |-> FALSE, v |-> VNull]
SomeValue(val) == [some |-> TRUE, v |-> val]

\* a faulty variant: the legacy key is read first
GetCompat_LegacyFirst(value, snake_key, camel_key) ==
    IF camel_key \in DOMAIN value THEN SomeValue(value[camel_key])
    ELSE IF snake_key \in DOMAIN value THEN SomeValue(value[snake_key])
    ELSE NoValue

\* value.get(snake_key).or_else(|| value.get(camel_key))
GetCompat(value, snake_key, camel_key) ==
    IF snake_key \in DOMAIN value THEN SomeValue(value[snake_key])
    ELSE IF camel_key \in DOMAIN value THEN SomeValue(value[camel_key])
    ELSE NoValue

get_str_compat(value, snake_key, camel_key, default) ==
    LET g == GetCompat(value, snake_key, camel_key) IN
    IF g.some /\ g.v.t = "str" THEN g.v.v ELSE default

get_opt_str_compat(value, snake_key, camel_key) ==
    LET g == GetCompat(value, snake_key, camel_key) IN
    IF g.some /\ g.v.t = "str" THEN Some(g.v.v) ELSE None

get_bool_compat(value, snake_key, camel_key, default) ==
    LET g == GetCompat(value, snake_key, camel_key) IN
    IF g.some /\ g.v.t = "bool" THEN g.v.v = "true" ELSE default

\* from_db_value: the oh-my-opencode config read from its stored record
from_db_value(value) ==
    [id |-> get_str_compat(value, "config_id", "configId", ""),
     name |-> get_str_compat(value, "name", "name", "Unnamed Config"),
     is_applied |-> get_bool_compat(value, "is_applied", "isApplied", FALSE),
     agents |-> IF "agents" \in DOMAIN value THEN SomeValue(value["agents"]) ELSE NoValue,
     other_fields |-> GetCompat(value, "other_fields", "otherFields"),
     created_at |-> get_opt_str_compat(value, "created_at", "createdAt"),
     updated_at |-> get_opt_str_compat(value, "updated_at", "updatedAt")]

\* refresh_tray_menus: the tuple pushed for a claude_provider record, or no
\* tuple when name, id or flag is missing
NoRow == [ok |-> FALSE, id |-> "", name |-> "", applied |-> FALSE, sort_index |-> "0"]
tray_row(record) ==
    LET name == IF "name" \in DOMAIN record THEN SomeValue(record["name"]) ELSE NoValue
        id == GetCompat(record, "provider_id", "providerId")
        flag == GetCompat(record, "is_applied", "isApplied")
        idx == GetCompat(record, "sort_index", "sortIndex")
    IN  IF /\ name.some /\ name.v.t = "str"
           /\ id.some /\ id.v.t = "str"
           /\ flag.some /\ flag.v.t = "bool"
            THEN [ok |-> TRUE, id |-> id.v.v, name |-> name.v.v,
                  applied |-> flag.v.v = "true",
                  sort_index |-> IF idx.some /\ idx.v.t = "int" THEN idx.v.v ELSE "0"]
            ELSE NoRow

\* the pairs of keys each reader accepts
KeyPair(cur, leg) == [cur |-> cur, leg |-> leg]
AdapterPairs == {KeyPair("config_id", "configId"), KeyPair("is_applied", "isApplied"),
                 KeyPair("other_fields", "otherFields"),
                 KeyPair("created_at", "createdAt"), KeyPair("updated_at", "updatedAt")}
TrayPairs == {KeyPair("provider_id", "providerId"), KeyPair("is_applied", "isApplied"),
              KeyPair("sort_index", "sortIndex")}

\* the records drawn: one pair of keys with any values, and whole records in
\* which each pair is absent, under its current key, under its legacy key,
\* or under both with unlike values
OneKey == KeyPair("config_id", "configId")
SmallRecords == UNION {[ks -> FieldVals] : ks \in SUBSET {OneKey.cur, OneKey.leg}}
CurVal(k) == IF k = "is_applied" THEN VBool(TRUE)
             ELSE IF k = "sort_index" THEN VInt("1") ELSE VStr("x")
LegVal(k) == IF k = "is_applied" THEN VBool(FALSE)
             ELSE IF k = "sort_index" THEN VNull ELSE VStr("y")
RecordOf(pairs, pat, extra) ==
    [k \in {p.cur : p \in {q \in pairs : pat[q] \in {"cur", "both"}}}
           \cup {p.leg : p \in {q \in pairs : pat[q] \in {"leg", "both"}}}
           \cup extra |->
        IF k \in extra THEN VStr("n")
        ELSE IF \E p \in pairs : p.cur = k THEN CurVal(k)
        ELSE LegVal((CHOOSE p \in pairs : p.leg = k).cur)]
Patterns == {"none", "cur", "leg", "both"}
WholeRecords(pairs) ==
    {RecordOf(pairs, pat, extra) :
        pat \in [pairs -> Patterns], extra \in {{}, {"name"}}}

InitCompat ==
    \/ \E o \in {"get_str_compat", "get_opt_str_compat", "get_bool_compat"} :
          InitCall(o, SmallRecords, {OneKey})
    \/ InitCall("from_db_value", WholeRecords(AdapterPairs), {AdapterPairs})
    \/ InitCall("tray_row", WholeRecords(TrayPairs), {TrayPairs})

compat_call(t) ==
    /\ pc[t] = "call"
    /\ \/ /\ op[t] = "get_str_compat"
          /\ Returned(t, get_str_compat(arg[t].x, arg[t].y.cur, arg[t].y.leg, ""), "ok")
       \/ /\ op[t] = "get_opt_str_compat"
          /\ Returned(t, get_opt_str_compat(arg[t].x, arg[t].y.cur, arg[t].y.leg), "ok")
       \/ /\ op[t] = "get_bool_compat"
          /\ Returned(t, get_bool_compat(arg[t].x, arg[t].y.cur, arg[t].y.leg, FALSE), "ok")

from_db_value_call(t) ==
    /\ pc[t] = "call" /\ op[t] = "from_db_value"
    /\ Returned(t, from_db_value(arg[t].x), "ok")

tray_row_call(t) ==
    /\ pc[t] = "call" /\ op[t] = "tray_row"
    /\ Returned(t, tray_row(arg[t].x), "ok")

NextCompat ==
    \/ compat_call("win")
    \/ from_db_value_call("win")
    \/ tray_row_call("win")

SpecCompat == InitCompat /\ [][NextCompat]_vars

\* the record with every value under its current key: the current key's
\* value where there is one, else the legacy key's
C28_Current(record, pairs) ==
    [k \in (DOMAIN record \ {p.leg : p \in pairs})
           \cup {p.cur : p \in {q \in pairs : q.leg \in DOMAIN record}} |->
        IF k \in DOMAIN record THEN record[k]
        ELSE record[(CHOOSE p \in pairs : p.cur = k).leg]]

\* the record with every value under its legacy key only
C28_Legacy(record, pairs) ==
    LET c == C28_Current(record, pairs) IN
    [k \in (DOMAIN c \ {p.cur : p \in pairs})
           \cup {p.leg : p \in {q \in pairs : q.cur \in DOMAIN c}} |->
        IF k \in DOMAIN c /\ k \notin {p.cur : p \in pairs} THEN c[k]
        ELSE c[(CHOOSE p \in pairs : p.leg = k).cur]]

\* C28: a record read with legacy-tolerant keys decodes as the record that
\* has the same values under the current keys only, and as the one that has
\* them under the legacy keys only; where both keys are present the current
\* key's value is the one decoded.
C28_LegacyKeys ==
    /\ \A o \in {"get_str_compat", "get_opt_str_compat", "get_bool_compat"} :
          Called(o) =>
              LET r == arg["win"].x
                  k == arg["win"].y
                  v == IF k.cur \in DOMAIN r THEN r[k.cur]
                       ELSE IF k.leg \in DOMAIN r THEN r[k.leg] ELSE VNull
              IN  loc["win"].out =
                     (IF o = "get_str_compat" THEN (IF v.t = "str" THEN v.v ELSE "")
                      ELSE IF o = "get_opt_str_compat"
                          THEN (IF v.t = "str" THEN Some(v.v) ELSE None)
                      ELSE (v.t = "bool" /\ v.v = "true"))
    /\ Called("from_db_value") =>
          /\ loc["win"].out = from_db_value(C28_Current(arg["win"].x, arg["win"].y))
          /\ loc["win"].out = from_db_value(C28_Legacy(arg["win"].x, arg["win"].y))
    /\ Called("tray_row") =>
          /\ loc["win"].out = tray_row(C28_Current(arg["win"].x, arg["win"].y))
          /\ loc["win"].out = tray_row(C28_Legacy(arg["win"].x, arg["win"].y))

\* a tray record with its id under both keys and its flag under the legacy
\* key only
C28_Witness ==
    /\ Called("tray_row")
    /\ DOMAIN arg["win"].x = {"name", "provider_id", "providerId", "isApplied"}
    /\ loc["win"].out = [ok |-> TRUE, id |-> "x", name |-> "n", applied |-> FALSE,
                         sort_index |-> "0"]

----------------------------------------------------------------------------
(* Removal: delete, and the delete inside update, with crashes *)

\* every profile absent or stored, at most one applied, with the files of an
\* earlier apply or none
InitRemove ==
    /\ InitTasks
    /\ store \in TableInits
    /\ common = NoCommon
    /\ files \in {NoFiles, LegacyFiles}

InvokeUpdateSame == UpdateWith({PayloadA}, {BlankTime})

RemoveSteps(t) ==
    \/ Acquire(t)
    \/ Return(t)
    \/ delete_record(t)
    \/ update_read(t)
    \/ update_delete(t)
    \/ update_create(t)
    \/ update_file(t)

NextRemove ==
    \/ Startup
    \/ Crash
    \/ InvokeDelete
    \/ InvokeUpdateSame
    \/ RemoveSteps("win")

SpecRemove == InitRemove /\ [][NextRemove]_vars

\* the step of a delete: it ends with success or with the store's failure,
\* never with "not found"; on success the id is gone, every other record is
\* as it was and, if the id was the applied one, nothing is applied; no file
\* and no common config changes
C29_Step ==
    \A t \in Tasks :
        (pc[t] = "delete" /\ StepOf(t)) =>
            LET id == arg[t].id IN
            /\ pc'[t] = "done" /\ res'[t] \in {"ok", "StoreFailure"}
            /\ res'[t] = "ok" =>
                  /\ ~store'[id].exists
                  /\ \A i \in ProfileIds \ {id} : store'[i] = store[i]
                  /\ (store[id].exists /\ store[id].applied /\ AppliedIds = {id}) =>
                        \A i \in ProfileIds : ~(store'[i].exists /\ store'[i].applied)
            /\ res'[t] = "StoreFailure" => store' = store
            /\ files' = files /\ common' = common

\* C29: delete(id) succeeds whether or not the id is stored; afterwards the
\* id is not stored, every other profile is unchanged and the files are
\* untouched, so deleting the applied profile leaves no profile applied.
C29_DeleteById == [][C29_Step]_vars

\* a delete has succeeded with the files of an earlier apply in place and
\* another profile left, none applied
C29_Witness ==
    /\ pc["win"] = "done" /\ op["win"] = "delete" /\ res["win"] = "ok"
    /\ arg["win"].id = "a"
    /\ store[DefaultId].exists
    /\ AppliedIds = {}
    /\ files = LegacyFiles

\* between the DELETE and the CREATE of an update the profile is not stored
C30_Absent ==
    \A t \in Tasks : pc[t] = "update_create" => ~store[arg[t].id].exists

\* a failed CREATE, or a crash before it, leaves the profile absent; the
\* failure ends the update with the store's error and without the re-apply
C30_Step ==
    \A t \in Tasks :
        /\ (pc[t] = "update_create" /\ pc'[t] = "done" /\ res'[t] # "ok") =>
              /\ res'[t] = "StoreFailure"
              /\ ~store'[arg[t].id].exists
              /\ files' = files
        /\ (pc[t] = "update_create" /\ proc = "up" /\ proc' = "down") =>
              /\ ~store'[arg[t].id].exists
              /\ store' = store

\* C30: update deletes and then recreates the record: when the recreate
\* fails, or the process crashes, after the delete succeeded, the profile is
\* absent from the store and the old record is not put back; the failure is
\* returned to the caller and no re-apply is attempted.
C30_UpdateNotAtomic == [](C30_Absent) /\ [][C30_Step]_vars

\* an update of a stored profile has ended with the store's error and the
\* profile gone
C30_Witness ==
    /\ pc["win"] = "done" /\ op["win"] = "update" /\ res["win"] = "StoreFailure"
    /\ loc["win"].existing.exists
    /\ ~store[arg["win"].id].exists

----------------------------------------------------------------------------
(* select on an id that names no stored profile *)

\* the window task runs select on an id that is not in the table
C31_AbsentTarget ==
    /\ proc = "up"
    /\ op["win"] = "select"
    /\ ~store[arg["win"].id].exists

\* the state in which select has answered for such an id: never NotFound, and
\* when both store calls went through the answer is success with the event
\* sent and no profile applied
C31_Answer ==
    (C31_AbsentTarget /\ pc["win"] = "done")
        => /\ res["win"] \in {"ok", "StoreFailure"}
           /\ res["win"] = "ok" => (AppliedIds = {} /\ ev["win"] = <<"window">>)

\* the two store calls of such a select: the first resets every flag, the
\* second finds no row to mark, changes no record and returns success
C31_Step ==
    (C31_AbsentTarget /\ StepOf("win"))
        => /\ (pc["win"] = "select" /\ pc'["win"] = "select_set")
                => \A i \in ProfileIds : store'[i].exists => ~store'[i].applied
           /\ (pc["win"] = "select_set" /\ pc'["win"] = "done"
                 /\ res'["win"] # "StoreFailure")
                => (res'["win"] = "ok" /\ store' = store)

\* C31: select(id) with an id that names no stored profile reports no NotFound;
\* it still runs the unset-all step and, its store calls succeeding, returns
\* success and leaves the family with no applied profile, so the profile that
\* was applied before loses its flag.
C31_SelectAbsentId == [](C31_Answer) /\ [][C31_Step]_vars

\* select has returned success for an absent id while another profile is
\* stored, unapplied
C31_Witness ==
    /\ C31_AbsentTarget
    /\ pc["win"] = "done"
    /\ res["win"] = "ok"
    /\ \E i \in ProfileIds : store[i].exists /\ ~store[i].applied

----------------------------------------------------------------------------
(* Completion: window commands and tray operations under a fair scheduler *)

InitLive ==
    /\ InitTasks
    /\ store \in ConcTables
    /\ common = NoCommon
    /\ files = NoFiles

\* the steps a task takes without waiting: store calls, file writes, the
\* menu build, the return
Running(t) ==
    \/ Return(t)
    \/ select_unset(t)
    \/ select_set(t)
    \/ apply_file(t)
    \/ apply_unset(t)
    \/ apply_set(t)
    \/ tray_apply_file(t)
    \/ tray_apply_unset(t)
    \/ tray_apply_set(t)
    \/ refresh_query(t)
    \/ refresh_build(t)

\* the two places where a task waits for the lock
Waiting(t) == Acquire(t) \/ refresh_lock(t)

NextLive ==
    \/ Startup
    \/ create_tray
    \/ InvokeSelect
    \/ InvokeApply
    \/ \E t \in Tasks : TrayClick(t)
    \/ \E t \in Tasks : Waiting(t)
    \/ \E t \in Tasks : Running(t)

\* the scheduler polls every task that can run, every store and file call
\* returns, and the lock's queue serves a waiter that finds the lock free
\* again and again
FairLive ==
    \A t \in Tasks :
        /\ WF_vars(Running(t))
        /\ SF_vars(Acquire(t))
        /\ SF_vars(refresh_lock(t))

SpecLive == InitLive /\ [][NextLive]_vars /\ FairLive

\* a task that waits for the lock does not hold it, and a rebuild that
\* builds the menu has given it back
C32_NoSelfWait ==
    \A t \in Tasks :
        /\ pc[t] \in {"lock", "refresh_lock"} => lock # t
        /\ pc[t] = "refresh_build" => lock # t

\* every operation that has started gets to its result
C32_Completes == \A t \in Tasks : (pc[t] # "idle") ~> (pc[t] = "done")

\* C32: no operation waits for the store lock while holding it (the tray's
\* apply gives the lock back before it starts the rebuild, the rebuild gives
\* it back before it builds the menu), and so, with store and file calls that
\* return and a fair scheduler, every started window or tray operation
\* eventually completes.
C32_NoDeadlock == [](C32_NoSelfWait) /\ C32_Completes

\* a tray apply has gone through its rebuild and completed while a window
\* command is queued for the lock
C32_Witness ==
    /\ pc["tray"] = "done" /\ op["tray"] = "tray_apply" /\ res["tray"] = "ok"
    /\ pc["win"] = "lock"
    /\ lock = NoTask

====
